---- MODULE Spec2Model ----
(***************************************************************************)
(* A model of the clinical-trials pipeline: the record normalisation core, *)
(* TrialProcessor (src/src/data_processors/trial_processor.py) and         *)
(* EndpointProcessor (src/src/data_processors/endpoint_processor.py); the  *)
(* loader of the relational store (src/src/database/load_data.py); and the *)
(* query API (src/src/api/main.py).                                        *)
(*                                                                         *)
(* Python values are tagged records: [t |-> "str", v |-> <characters>],    *)
(* [t |-> "int"], [t |-> "float"], [t |-> "none"], [t |-> "list"],         *)
(* [t |-> "dict"].  A Python string is a sequence of one-character         *)
(* strings, so that lower(), find(), slicing, `in` and the regular         *)
(* expressions act on its characters as the code's do.                     *)
(*                                                                         *)
(* The built-ins of Python the code calls (the methods of str, float(),    *)
(* int(), module re, json.dump and json.load) are defined first, as the    *)
(* language defines them; the tables and the methods of the two classes    *)
(* follow, each under the name it has in the source.                       *)
(***************************************************************************)
EXTENDS Integers, Sequences, FiniteSets, TLC

VARIABLES
    files,       \* json_dir: file name -> the JSON document written to it
    files_before, \* json_dir as it was when the last process_and_save_trial call began
    args,        \* the arguments of the last process_and_save_trial call
    processed,   \* processed_data of that call, or the exception that ended it
    saved_as,    \* the file name that call wrote
    reloaded,    \* what load_all_trials returned since: file name -> record
    runs,        \* number of process_and_save_trial calls so far
    dedup_fn,    \* which deduplication method is called
    dedup_in,    \* its argument
    dedup_out,   \* its result
    dedup_again, \* the result of the method called on its result
    name_in,     \* argument of the normalize_endpoint_name call
    name_out,    \* its result
    pubs_in,     \* argument of the extract_publication_endpoints call
    pubs_out,    \* its result
    baseline_out, \* the result of extract_publication_baseline_measures on the same argument
    groups_fn,   \* which extractor is called on a results section
    groups_in,   \* its trial_data
    groups_out,  \* its result
    session,     \* the tables as the loader's session sees them
    database,    \* the tables as committed
    loaded,      \* the argument of the last process_clinical_study call
    session_before, \* the tables as the session saw them before that call
    json_trials, \* api: the summaries get_json_data built at startup
    json_trial_details, \* api: nct id -> record, built at startup
    request,     \* the last request to the API
    response,    \* the response to it
    raw_dir,     \* the directory of the raw files: file name -> text
    batch,       \* the operation over a directory that is under way or ended
    fetched      \* the search_trials calls so far: arguments, what the request met, result

vars == <<files, files_before, args, processed, saved_as, reloaded, runs,
          dedup_fn, dedup_in, dedup_out, dedup_again, name_in, name_out, pubs_in, pubs_out,
          baseline_out, groups_fn, groups_in, groups_out, session, database, loaded, session_before,
          json_trials, json_trial_details, request, response, raw_dir, batch, fetched>>

\* the variables of each part of the model
pipeline_vars == <<files, files_before, args, processed, saved_as, reloaded, runs>>
dedup_vars == <<dedup_fn, dedup_in, dedup_out, dedup_again>>
name_vars == <<name_in, name_out>>
pubs_vars == <<pubs_in, pubs_out, baseline_out>>
groups_vars == <<groups_fn, groups_in, groups_out>>
store_vars == <<session, database, loaded, session_before>>
api_vars == <<json_trials, json_trial_details, request, response>>
batch_vars == <<raw_dir, batch>>
fetch_vars == <<fetched>>

-----------------------------------------------------------------------------
(* Characters and Python's str methods.                                    *)

Digits == {"0", "1", "2", "3", "4", "5", "6", "7", "8", "9"}

\* str.isspace() characters that occur in the inputs (re's \s, str.strip, str.split)
Whitespace == {" ", "\t", "\n", "\r", "\f"}

LowerTable ==
    [c \in {"A","B","C","D","E","F","G","H","I","J","K","L","M",
            "N","O","P","Q","R","S","T","U","V","W","X","Y","Z"} |->
       CASE c = "A" -> "a" [] c = "B" -> "b" [] c = "C" -> "c" [] c = "D" -> "d"
         [] c = "E" -> "e" [] c = "F" -> "f" [] c = "G" -> "g" [] c = "H" -> "h"
         [] c = "I" -> "i" [] c = "J" -> "j" [] c = "K" -> "k" [] c = "L" -> "l"
         [] c = "M" -> "m" [] c = "N" -> "n" [] c = "O" -> "o" [] c = "P" -> "p"
         [] c = "Q" -> "q" [] c = "R" -> "r" [] c = "S" -> "s" [] c = "T" -> "t"
         [] c = "U" -> "u" [] c = "V" -> "v" [] c = "W" -> "w" [] c = "X" -> "x"
         [] c = "Y" -> "y" [] c = "Z" -> "z"]

LowerChar(c) == IF c \in DOMAIN LowerTable THEN LowerTable[c] ELSE c

UpperChar(c) ==
    IF \E u \in DOMAIN LowerTable : LowerTable[u] = c
    THEN CHOOSE u \in DOMAIN LowerTable : LowerTable[u] = c
    ELSE c

\* the sequence with the elements of the function f on 1..n
AsSeq(f) == f \o <<>>

\* F(v), with v evaluated once whatever the number of times F reads it
WithValue(v, F(_)) == CHOOSE r \in {F(x) : x \in {v}} : TRUE

\* str.lower()
Lower(s) == AsSeq([i \in 1..Len(s) |-> LowerChar(s[i])])

\* str.upper()
Upper(s) == AsSeq([i \in 1..Len(s) |-> UpperChar(s[i])])

\* str.capitalize(): first character upper-cased, the rest lower-cased
Capitalize(s) == AsSeq([i \in 1..Len(s) |-> IF i = 1 THEN UpperChar(s[i]) ELSE LowerChar(s[i])])

\* s[i:] starts with sub (i is a 0-based offset)
StartsWithAt(s, sub, i) ==
    /\ i + Len(sub) <= Len(s)
    /\ \A k \in 1..Len(sub) : s[i + k] = sub[k]

\* str.startswith
StartsWith(s, sub) == StartsWithAt(s, sub, 0)

\* str.endswith
EndsWith(s, sub) == Len(sub) <= Len(s) /\ StartsWithAt(s, sub, Len(s) - Len(sub))

\* str.find(sub): the lowest 0-based offset at which sub occurs, or -1
Find(s, sub) ==
    LET at == {i \in 0..(Len(s) - Len(sub)) : StartsWithAt(s, sub, i)}
    IN  IF at = {} THEN -1 ELSE CHOOSE i \in at : \A j \in at : i <= j

\* sub in s
Contains(s, sub) == \E i \in 0..(Len(s) - Len(sub)) : StartsWithAt(s, sub, i)

\* any(term in s for term in terms)
ContainsAny(s, terms) == \E k \in 1..Len(terms) : Contains(s, terms[k])

\* s[a:b] for 0 <= a, b (Python clamps b to len(s))
Slice(s, a, b) ==
    LET hi == IF b > Len(s) THEN Len(s) ELSE b
    IN  IF a >= hi THEN <<>> ELSE SubSeq(s, a + 1, hi)

\* str.strip()
Strip(s) ==
    LET keep == {i \in 1..Len(s) : s[i] \notin Whitespace}
    IN  IF keep = {} THEN <<>>
        ELSE LET lo == CHOOSE i \in keep : \A j \in keep : i <= j
                 hi == CHOOSE i \in keep : \A j \in keep : j <= i
             IN  Slice(s, lo - 1, hi)

\* re.sub(r'\s+', ' ', s): every maximal run of whitespace becomes one space
RECURSIVE CollapseFrom(_, _)
CollapseFrom(s, i) ==
    IF i > Len(s) THEN <<>>
    ELSE IF s[i] \in Whitespace
         THEN IF i > 1 /\ s[i - 1] \in Whitespace
              THEN CollapseFrom(s, i + 1)
              ELSE <<" ">> \o CollapseFrom(s, i + 1)
         ELSE <<s[i]>> \o CollapseFrom(s, i + 1)

CollapseWhitespace(s) == CollapseFrom(s, 1)

\* str.split()[0]: the first whitespace-delimited word; <<>> stands for the
\* IndexError of an all-whitespace string
FirstWord(s) ==
    LET t == Strip(s)
        ws == {i \in 1..Len(t) : t[i] \in Whitespace}
    IN  IF ws = {} THEN t
        ELSE Slice(t, 0, (CHOOSE i \in ws : \A j \in ws : i <= j) - 1)

-----------------------------------------------------------------------------
(* Python values.                                                          *)

None == [t |-> "none"]
PyStr(s) == [t |-> "str", v |-> s]
PyInt(n) == [t |-> "int", v |-> n]
\* a finite float, the decimal m * 10^e with m not divisible by 10 unless e = 0
PyFloat(m, e) == [t |-> "float", m |-> m, e |-> e]
\* float('nan'), float('inf'), float('-inf')
NaN == [t |-> "nan"]
Inf == [t |-> "inf", neg |-> FALSE]
NegInf == [t |-> "inf", neg |-> TRUE]
PyList(s) == [t |-> "list", v |-> s]
PyDict(f) == [t |-> "dict", v |-> f]

EmptyDict == PyDict(<<>>)
EmptyList == PyList(<<>>)
EmptyStr == PyStr(<<>>)

\* dict.get(key, default)
Get(d, key, default) == IF key \in DOMAIN d.v THEN d.v[key] ELSE default

\* key in dict
HasKey(d, key) == key \in DOMAIN d.v

\* bool(x)
Truthy(x) ==
    CASE x.t = "none" -> FALSE
      [] x.t = "str" -> x.v # <<>>
      [] x.t = "list" -> x.v # <<>>
      [] x.t = "dict" -> DOMAIN x.v # {}
      [] x.t = "int" -> x.v # 0
      [] x.t = "float" -> x.m # 0
      [] OTHER -> TRUE

\* a or b
Or(a, b) == IF Truthy(a) THEN a ELSE b

-----------------------------------------------------------------------------
(* float(): str -> float.                                                  *)

DigitVal(c) ==
    CASE c = "0" -> 0 [] c = "1" -> 1 [] c = "2" -> 2 [] c = "3" -> 3 [] c = "4" -> 4
      [] c = "5" -> 5 [] c = "6" -> 6 [] c = "7" -> 7 [] c = "8" -> 8 [] c = "9" -> 9

RECURSIVE DigitsVal(_)
DigitsVal(s) == IF s = <<>> THEN 0 ELSE 10 * DigitsVal(SubSeq(s, 1, Len(s) - 1)) + DigitVal(s[Len(s)])

AllDigits(s) == \A i \in 1..Len(s) : s[i] \in Digits

\* the float m * 10^e in canonical form
RECURSIVE Normalize(_, _)
Normalize(m, e) ==
    IF m = 0 THEN PyFloat(0, 0)
    ELSE IF e < 0 /\ m % 10 = 0 THEN Normalize(m \div 10, e + 1)
    ELSE PyFloat(m, e)

\* The outcome of float(s) for a str s: [ok |-> TRUE, val |-> the float] or
\* [ok |-> FALSE] for ValueError.  Accepted are, between optional whitespace
\* and after an optional sign, 'inf', 'infinity' and 'nan' in any case and
\* decimals digits[.digits] and .digits; exponents and underscores do not
\* occur in the inputs of the model.

\* the decimal with integer part ip and fraction fp
ParseDecimal(ip, fp, neg) ==
    IF AllDigits(ip) /\ AllDigits(fp) /\ Len(ip) + Len(fp) > 0
    THEN [ok |-> TRUE,
          val |-> Normalize(IF neg THEN -DigitsVal(ip \o fp) ELSE DigitsVal(ip \o fp), -Len(fp))]
    ELSE [ok |-> FALSE]

\* what follows the sign
ParseUnsigned(body, neg) ==
    IF body \in {<<"i","n","f">>, <<"i","n","f","i","n","i","t","y">>}
    THEN [ok |-> TRUE, val |-> IF neg THEN NegInf ELSE Inf]
    ELSE IF body = <<"n","a","n">>
    THEN [ok |-> TRUE, val |-> NaN]
    ELSE IF Contains(body, <<".">>)
    THEN ParseDecimal(Slice(body, 0, Find(body, <<".">>)),
                      Slice(body, Find(body, <<".">>) + 1, Len(body)), neg)
    ELSE ParseDecimal(body, <<>>, neg)

ParseSigned(t) ==
    IF t # <<>> /\ t[1] \in {"+", "-"} THEN ParseUnsigned(Tail(t), t[1] = "-")
    ELSE ParseUnsigned(t, FALSE)

ParseFloat(s) == ParseSigned(Lower(Strip(s)))

\* The outcome of int(s) for a str s of the model's inputs (optional sign, digits)
ParseInt(s) ==
    LET t == Strip(s)
        signed == t # <<>> /\ t[1] \in {"+", "-"}
        body == IF signed THEN Tail(t) ELSE t
    IN  IF body # <<>> /\ AllDigits(body)
        THEN [ok |-> TRUE, val |-> IF signed /\ t[1] = "-" THEN -DigitsVal(body) ELSE DigitsVal(body)]
        ELSE [ok |-> FALSE]

-----------------------------------------------------------------------------
(* Regular expressions (module re), as far as the patterns of the code use *)
(* them.  A pattern is a sequence of nodes; matching backtracks in the     *)
(* order re does: alternatives left to right, greedy repeats longest       *)
(* first, lazy repeats shortest first.                                     *)

Digit == [c |-> "digit"]
Space == [c |-> "space"]
Dot == [c |-> "dot"]
SetOf(chars) == [c |-> "set", chars |-> chars]

Lit(s) == [k |-> "lit", s |-> s]
Alt(alts) == [k |-> "alt", alts |-> alts]
Opt(body) == [k |-> "opt", body |-> body]
\* between min and max (any number, if unbounded) characters of class cls
Rep(cls, min, max, unbounded, greedy) ==
    [k |-> "rep", cls |-> cls, min |-> min, max |-> max, unbounded |-> unbounded, greedy |-> greedy]
Open(g) == [k |-> "open", g |-> g]
Close(g) == [k |-> "close", g |-> g]

InClass(cls, ch) ==
    CASE cls.c = "digit" -> ch \in Digits
      [] cls.c = "space" -> ch \in Whitespace
      [] cls.c = "dot" -> ch # "\n"
      [] cls.c = "set" -> ch \in cls.chars

\* with re.IGNORECASE a literal matches whatever the case of the two
LitAt(text, s, i, ic) ==
    /\ i + Len(s) <= Len(text)
    /\ \A k \in 1..Len(s) :
         IF ic THEN LowerChar(text[i + k]) = LowerChar(s[k]) ELSE text[i + k] = s[k]

\* how many characters from offset i on are in cls, up to limit (if limited)
RunLength(text, i, cls, limited, limit) ==
    LET stops == {k \in (i + 1)..Len(text) : ~InClass(cls, text[k])}
        run == IF stops = {} THEN Len(text) - i
               ELSE (CHOOSE k \in stops : \A j \in stops : k <= j) - 1 - i
    IN  IF limited /\ limit < run THEN limit ELSE run

NoMatch == [ok |-> FALSE]

\* nodes matched at offset i of text: [ok, end, caps], caps[g] = <<start, end>>
\* offsets of group g (<<-1, -1>> if it took no part)
RECURSIVE MatchHere(_, _, _, _, _)
RECURSIVE TryAlts(_, _, _, _, _, _, _)
RECURSIVE TryCounts(_, _, _, _, _, _, _, _)

MatchHere(nodes, text, i, caps, ic) ==
    IF nodes = <<>> THEN [ok |-> TRUE, end |-> i, caps |-> caps]
    ELSE LET n == Head(nodes)
             rest == Tail(nodes)
         IN  CASE n.k = "lit" ->
                    IF LitAt(text, n.s, i, ic)
                    THEN MatchHere(rest, text, i + Len(n.s), caps, ic)
                    ELSE NoMatch
               [] n.k = "alt" -> TryAlts(n.alts, 1, rest, text, i, caps, ic)
               [] n.k = "opt" ->
                    WithValue(MatchHere(n.body \o rest, text, i, caps, ic),
                              LAMBDA r : IF r.ok THEN r ELSE MatchHere(rest, text, i, caps, ic))
               [] n.k = "rep" ->
                    WithValue(RunLength(text, i, n.cls, ~n.unbounded, n.max),
                              LAMBDA avail :
                                  IF avail < n.min THEN NoMatch
                                  ELSE IF n.greedy
                                  THEN TryCounts(rest, text, i, avail, -1, n.min, caps, ic)
                                  ELSE TryCounts(rest, text, i, n.min, 1, avail, caps, ic))
               [] n.k = "open" ->
                    MatchHere(rest, text, i, [caps EXCEPT ![n.g] = <<i, -1>>], ic)
               [] n.k = "close" ->
                    MatchHere(rest, text, i, [caps EXCEPT ![n.g] = <<caps[n.g][1], i>>], ic)

TryAlts(alts, j, rest, text, i, caps, ic) ==
    IF j > Len(alts) THEN NoMatch
    ELSE WithValue(MatchHere(alts[j] \o rest, text, i, caps, ic),
                   LAMBDA r : IF r.ok THEN r ELSE TryAlts(alts, j + 1, rest, text, i, caps, ic))

\* the repeat takes count, count + step, ... last characters: the match of
\* the rest after the first of these counts after which the rest matches
TryCounts(rest, text, i, count, step, last, caps, ic) ==
    LET lo == IF step > 0 THEN count ELSE last
        hi == IF step > 0 THEN last ELSE count
    IN  WithValue({t \in {[count |-> c, r |-> MatchHere(rest, text, i + c, caps, ic)] : c \in lo..hi} : t.r.ok},
                  LAMBDA good :
                      IF good = {} THEN NoMatch
                      ELSE IF step > 0
                      THEN (CHOOSE t \in good : \A u \in good : t.count <= u.count).r
                      ELSE (CHOOSE t \in good : \A u \in good : u.count <= t.count).r)

NoCaps == [g \in 1..2 |-> <<-1, -1>>]

\* re.search(pattern, text[from:]): the leftmost match, [ok, start, end, caps]
SearchFrom(nodes, text, from, ic) ==
    WithValue({m \in {[start |-> i, r |-> MatchHere(nodes, text, i, NoCaps, ic)] : i \in from..Len(text)} : m.r.ok},
              LAMBDA found :
                  IF found = {} THEN NoMatch
                  ELSE LET m == CHOOSE m \in found : \A o \in found : m.start <= o.start
                       IN  [ok |-> TRUE, start |-> m.start, end |-> m.r.end, caps |-> m.r.caps])

Search(nodes, text, ic) == SearchFrom(nodes, text, 0, ic)

\* match.group(0)
Group0(text, m) == Slice(text, m.start, m.end)

\* match.group(1) of a group that took part in the match
Group1(text, m) == Slice(text, m.caps[1][1], m.caps[1][2])

\* re.findall(pattern, text) for a pattern with one group, or with two of
\* which the code reads the first (match[0] of the tuple): the first group
\* of every match, left to right, each search resuming where the last match
\* ended (one further on after an empty match)
RECURSIVE FindAllFrom(_, _, _, _)
FindAllFrom(nodes, text, from, ic) ==
    WithValue(SearchFrom(nodes, text, from, ic),
              LAMBDA m :
                  IF ~m.ok THEN <<>>
                  ELSE <<Group1(text, m)>> \o
                       FindAllFrom(nodes, text, IF m.end = m.start THEN m.end + 1 ELSE m.end, ic))

FindAll(nodes, text, ic) == FindAllFrom(nodes, text, 0, ic)

-----------------------------------------------------------------------------
(* The constant tables of the processors.                                  *)

\* EndpointProcessor.endpoint_aliases, in the order of the dict
endpoint_aliases ==
    <<
      [standard_name |-> <<"p","v","r">>,
       aliases |-> <<<<"p","u","l","m","o","n","a","r","y"," ","v","a","s","c","u","l","a","r"," ","r","e","s","i","s","t","a","n","c","e">>,
                     <<"p","v","r">>,
                     <<"p","u","l","m","o","n","a","r","y"," ","r","e","s","i","s","t","a","n","c","e">>>>],
      [standard_name |-> <<"6","m","w","d">>,
       aliases |-> <<<<"6"," ","m","i","n","u","t","e"," ","w","a","l","k"," ","d","i","s","t","a","n","c","e">>,
                     <<"6","m","w","d">>,
                     <<"6","-","m","i","n","u","t","e"," ","w","a","l","k">>,
                     <<"s","i","x"," ","m","i","n","u","t","e"," ","w","a","l","k">>,
                     <<"6"," ","m","i","n"," ","w","a","l","k">>>>],
      [standard_name |-> <<"n","t","-","p","r","o","b","n","p">>,
       aliases |-> <<<<"n","t","-","p","r","o","b","n","p">>,
                     <<"n","t"," ","p","r","o","b","n","p">>,
                     <<"n","-","t","e","r","m","i","n","a","l"," ","p","r","o","-","b","n","p">>,
                     <<"b","r","a","i","n"," ","n","a","t","r","i","u","r","e","t","i","c"," ","p","e","p","t","i","d","e">>>>],
      [standard_name |-> <<"w","h","o"," ","f","c">>,
       aliases |-> <<<<"w","h","o"," ","f","u","n","c","t","i","o","n","a","l"," ","c","l","a","s","s">>,
                     <<"w","h","o"," ","f","c">>,
                     <<"f","u","n","c","t","i","o","n","a","l"," ","c","l","a","s","s">>,
                     <<"w","h","o"," ","c","l","a","s","s">>>>],
      [standard_name |-> <<"t","i","m","e"," ","t","o"," ","c","l","i","n","i","c","a","l"," ","w","o","r","s","e","n","i","n","g">>,
       aliases |-> <<<<"t","t","c","w">>,
                     <<"t","i","m","e"," ","t","o"," ","c","l","i","n","i","c","a","l"," ","w","o","r","s","e","n","i","n","g">>,
                     <<"c","l","i","n","i","c","a","l"," ","w","o","r","s","e","n","i","n","g">>,
                     <<"t","i","m","e"," ","t","o"," ","w","o","r","s","e","n","i","n","g">>>>],
      [standard_name |-> <<"c","a","r","d","i","a","c"," ","o","u","t","p","u","t">>,
       aliases |-> <<<<"c","a","r","d","i","a","c"," ","o","u","t","p","u","t">>,
                     <<"c","o">>,
                     <<"c","a","r","d","i","a","c"," ","i","n","d","e","x">>,
                     <<"c","i">>>>]
    >>

\* endpoint_patterns of extract_publication_endpoints, in the order of the dict
endpoint_patterns ==
    <<
      [name |-> <<"P","V","R">>,
       patterns |-> <<
           \* (?:PVR|pulmonary vascular resistance).*?(-?\d+\.?\d*)\s*(?:%|percent)?
           <<Alt(<<<<Lit(<<"P","V","R">>)>>, <<Lit(<<"p","u","l","m","o","n","a","r","y"," ","v","a","s","c","u","l","a","r"," ","r","e","s","i","s","t","a","n","c","e">>)>>>>), Rep(Dot, 0, 0, TRUE, FALSE), Open(1), Rep(SetOf({"-"}), 0, 1, FALSE, TRUE), Rep(Digit, 1, 0, TRUE, TRUE), Rep(SetOf({"."}), 0, 1, FALSE, TRUE), Rep(Digit, 0, 0, TRUE, TRUE), Close(1), Rep(Space, 0, 0, TRUE, TRUE), Opt(<<Alt(<<<<Lit(<<"%">>)>>, <<Lit(<<"p","e","r","c","e","n","t">>)>>>>)>>)>>,
           
           \* (?:pulmonary resistance).*?(-?\d+\.?\d*)\s*(?:dyn|dyne|Wood|%|percent)?
           <<Lit(<<"p","u","l","m","o","n","a","r","y"," ","r","e","s","i","s","t","a","n","c","e">>), Rep(Dot, 0, 0, TRUE, FALSE), Open(1), Rep(SetOf({"-"}), 0, 1, FALSE, TRUE), Rep(Digit, 1, 0, TRUE, TRUE), Rep(SetOf({"."}), 0, 1, FALSE, TRUE), Rep(Digit, 0, 0, TRUE, TRUE), Close(1), Rep(Space, 0, 0, TRUE, TRUE), Opt(<<Alt(<<<<Lit(<<"d","y","n">>)>>, <<Lit(<<"d","y","n","e">>)>>, <<Lit(<<"W","o","o","d">>)>>, <<Lit(<<"%">>)>>, <<Lit(<<"p","e","r","c","e","n","t">>)>>>>)>>)>>,
           
           \* (?:decrease|change|reduction|improvement)\s+in\s+(?:PVR|pulmonary vascular resistance).*?(-?\d+\.?\d*)
           <<Alt(<<<<Lit(<<"d","e","c","r","e","a","s","e">>)>>, <<Lit(<<"c","h","a","n","g","e">>)>>, <<Lit(<<"r","e","d","u","c","t","i","o","n">>)>>, <<Lit(<<"i","m","p","r","o","v","e","m","e","n","t">>)>>>>), Rep(Space, 1, 0, TRUE, TRUE), Lit(<<"i","n">>), Rep(Space, 1, 0, TRUE, TRUE), Alt(<<<<Lit(<<"P","V","R">>)>>, <<Lit(<<"p","u","l","m","o","n","a","r","y"," ","v","a","s","c","u","l","a","r"," ","r","e","s","i","s","t","a","n","c","e">>)>>>>), Rep(Dot, 0, 0, TRUE, FALSE), Open(1), Rep(SetOf({"-"}), 0, 1, FALSE, TRUE), Rep(Digit, 1, 0, TRUE, TRUE), Rep(SetOf({"."}), 0, 1, FALSE, TRUE), Rep(Digit, 0, 0, TRUE, TRUE), Close(1)>>,
           
           \* (?:PVR|pulmonary vascular resistance).*?(?:was|were|of|:)\s*(-?\d+\.?\d*)
           <<Alt(<<<<Lit(<<"P","V","R">>)>>, <<Lit(<<"p","u","l","m","o","n","a","r","y"," ","v","a","s","c","u","l","a","r"," ","r","e","s","i","s","t","a","n","c","e">>)>>>>), Rep(Dot, 0, 0, TRUE, FALSE), Alt(<<<<Lit(<<"w","a","s">>)>>, <<Lit(<<"w","e","r","e">>)>>, <<Lit(<<"o","f">>)>>, <<Lit(<<":">>)>>>>), Rep(Space, 0, 0, TRUE, TRUE), Open(1), Rep(SetOf({"-"}), 0, 1, FALSE, TRUE), Rep(Digit, 1, 0, TRUE, TRUE), Rep(SetOf({"."}), 0, 1, FALSE, TRUE), Rep(Digit, 0, 0, TRUE, TRUE), Close(1)>>>>,
       description |-> <<"P","u","l","m","o","n","a","r","y"," ","V","a","s","c","u","l","a","r"," ","R","e","s","i","s","t","a","n","c","e"," ","-"," ","m","e","a","s","u","r","e"," ","o","f"," ","r","e","s","i","s","t","a","n","c","e"," ","i","n"," ","p","u","l","m","o","n","a","r","y"," ","c","i","r","c","u","l","a","t","i","o","n">>],
      [name |-> <<"6","M","W","D">>,
       patterns |-> <<
           \* (?:6MWD|6-minute walk distance|6 minute walk).*?(-?\d+\.?\d*)\s*(?:m|meters|meter)?
           <<Alt(<<<<Lit(<<"6","M","W","D">>)>>, <<Lit(<<"6","-","m","i","n","u","t","e"," ","w","a","l","k"," ","d","i","s","t","a","n","c","e">>)>>, <<Lit(<<"6"," ","m","i","n","u","t","e"," ","w","a","l","k">>)>>>>), Rep(Dot, 0, 0, TRUE, FALSE), Open(1), Rep(SetOf({"-"}), 0, 1, FALSE, TRUE), Rep(Digit, 1, 0, TRUE, TRUE), Rep(SetOf({"."}), 0, 1, FALSE, TRUE), Rep(Digit, 0, 0, TRUE, TRUE), Close(1), Rep(Space, 0, 0, TRUE, TRUE), Opt(<<Alt(<<<<Lit(<<"m">>)>>, <<Lit(<<"m","e","t","e","r","s">>)>>, <<Lit(<<"m","e","t","e","r">>)>>>>)>>)>>,
           
           \* (?:increase|change|improvement)\s+in\s+(?:6MWD|6-minute walk distance|6 minute walk).*?(-?\d+\.?\d*)
           <<Alt(<<<<Lit(<<"i","n","c","r","e","a","s","e">>)>>, <<Lit(<<"c","h","a","n","g","e">>)>>, <<Lit(<<"i","m","p","r","o","v","e","m","e","n","t">>)>>>>), Rep(Space, 1, 0, TRUE, TRUE), Lit(<<"i","n">>), Rep(Space, 1, 0, TRUE, TRUE), Alt(<<<<Lit(<<"6","M","W","D">>)>>, <<Lit(<<"6","-","m","i","n","u","t","e"," ","w","a","l","k"," ","d","i","s","t","a","n","c","e">>)>>, <<Lit(<<"6"," ","m","i","n","u","t","e"," ","w","a","l","k">>)>>>>), Rep(Dot, 0, 0, TRUE, FALSE), Open(1), Rep(SetOf({"-"}), 0, 1, FALSE, TRUE), Rep(Digit, 1, 0, TRUE, TRUE), Rep(SetOf({"."}), 0, 1, FALSE, TRUE), Rep(Digit, 0, 0, TRUE, TRUE), Close(1)>>,
           
           \* (?:6MWD|6-minute walk distance|6 minute walk).*?(?:was|were|of|:)\s*(-?\d+\.?\d*)
           <<Alt(<<<<Lit(<<"6","M","W","D">>)>>, <<Lit(<<"6","-","m","i","n","u","t","e"," ","w","a","l","k"," ","d","i","s","t","a","n","c","e">>)>>, <<Lit(<<"6"," ","m","i","n","u","t","e"," ","w","a","l","k">>)>>>>), Rep(Dot, 0, 0, TRUE, FALSE), Alt(<<<<Lit(<<"w","a","s">>)>>, <<Lit(<<"w","e","r","e">>)>>, <<Lit(<<"o","f">>)>>, <<Lit(<<":">>)>>>>), Rep(Space, 0, 0, TRUE, TRUE), Open(1), Rep(SetOf({"-"}), 0, 1, FALSE, TRUE), Rep(Digit, 1, 0, TRUE, TRUE), Rep(SetOf({"."}), 0, 1, FALSE, TRUE), Rep(Digit, 0, 0, TRUE, TRUE), Close(1)>>,
           
           \* (?:distance walked).*?(-?\d+\.?\d*)\s*(?:m|meters|meter)
           <<Lit(<<"d","i","s","t","a","n","c","e"," ","w","a","l","k","e","d">>), Rep(Dot, 0, 0, TRUE, FALSE), Open(1), Rep(SetOf({"-"}), 0, 1, FALSE, TRUE), Rep(Digit, 1, 0, TRUE, TRUE), Rep(SetOf({"."}), 0, 1, FALSE, TRUE), Rep(Digit, 0, 0, TRUE, TRUE), Close(1), Rep(Space, 0, 0, TRUE, TRUE), Alt(<<<<Lit(<<"m">>)>>, <<Lit(<<"m","e","t","e","r","s">>)>>, <<Lit(<<"m","e","t","e","r">>)>>>>)>>>>,
       description |-> <<"6","-","M","i","n","u","t","e"," ","W","a","l","k"," ","D","i","s","t","a","n","c","e"," ","-"," ","m","e","a","s","u","r","e"," ","o","f"," ","e","x","e","r","c","i","s","e"," ","c","a","p","a","c","i","t","y">>],
      [name |-> <<"N","T","-","p","r","o","B","N","P">>,
       patterns |-> <<
           \* (?:NT-proBNP|NT proBNP|N-terminal pro.{0,20}BNP).*?(-?\d+\.?\d*)
           <<Alt(<<<<Lit(<<"N","T","-","p","r","o","B","N","P">>)>>, <<Lit(<<"N","T"," ","p","r","o","B","N","P">>)>>, <<Lit(<<"N","-","t","e","r","m","i","n","a","l"," ","p","r","o">>), Rep(Dot, 0, 20, FALSE, TRUE), Lit(<<"B","N","P">>)>>>>), Rep(Dot, 0, 0, TRUE, FALSE), Open(1), Rep(SetOf({"-"}), 0, 1, FALSE, TRUE), Rep(Digit, 1, 0, TRUE, TRUE), Rep(SetOf({"."}), 0, 1, FALSE, TRUE), Rep(Digit, 0, 0, TRUE, TRUE), Close(1)>>,
           
           \* (?:decrease|change|reduction)\s+in\s+(?:NT-proBNP|NT proBNP|N-terminal pro.{0,20}BNP).*?(-?\d+\.?\d*)
           <<Alt(<<<<Lit(<<"d","e","c","r","e","a","s","e">>)>>, <<Lit(<<"c","h","a","n","g","e">>)>>, <<Lit(<<"r","e","d","u","c","t","i","o","n">>)>>>>), Rep(Space, 1, 0, TRUE, TRUE), Lit(<<"i","n">>), Rep(Space, 1, 0, TRUE, TRUE), Alt(<<<<Lit(<<"N","T","-","p","r","o","B","N","P">>)>>, <<Lit(<<"N","T"," ","p","r","o","B","N","P">>)>>, <<Lit(<<"N","-","t","e","r","m","i","n","a","l"," ","p","r","o">>), Rep(Dot, 0, 20, FALSE, TRUE), Lit(<<"B","N","P">>)>>>>), Rep(Dot, 0, 0, TRUE, FALSE), Open(1), Rep(SetOf({"-"}), 0, 1, FALSE, TRUE), Rep(Digit, 1, 0, TRUE, TRUE), Rep(SetOf({"."}), 0, 1, FALSE, TRUE), Rep(Digit, 0, 0, TRUE, TRUE), Close(1)>>,
           
           \* (?:NT-proBNP|NT proBNP|N-terminal pro.{0,20}BNP).*?(?:was|were|of|:)\s*(-?\d+\.?\d*)
           <<Alt(<<<<Lit(<<"N","T","-","p","r","o","B","N","P">>)>>, <<Lit(<<"N","T"," ","p","r","o","B","N","P">>)>>, <<Lit(<<"N","-","t","e","r","m","i","n","a","l"," ","p","r","o">>), Rep(Dot, 0, 20, FALSE, TRUE), Lit(<<"B","N","P">>)>>>>), Rep(Dot, 0, 0, TRUE, FALSE), Alt(<<<<Lit(<<"w","a","s">>)>>, <<Lit(<<"w","e","r","e">>)>>, <<Lit(<<"o","f">>)>>, <<Lit(<<":">>)>>>>), Rep(Space, 0, 0, TRUE, TRUE), Open(1), Rep(SetOf({"-"}), 0, 1, FALSE, TRUE), Rep(Digit, 1, 0, TRUE, TRUE), Rep(SetOf({"."}), 0, 1, FALSE, TRUE), Rep(Digit, 0, 0, TRUE, TRUE), Close(1)>>,
           
           \* (?:brain natriuretic peptide).*?(-?\d+\.?\d*)
           <<Lit(<<"b","r","a","i","n"," ","n","a","t","r","i","u","r","e","t","i","c"," ","p","e","p","t","i","d","e">>), Rep(Dot, 0, 0, TRUE, FALSE), Open(1), Rep(SetOf({"-"}), 0, 1, FALSE, TRUE), Rep(Digit, 1, 0, TRUE, TRUE), Rep(SetOf({"."}), 0, 1, FALSE, TRUE), Rep(Digit, 0, 0, TRUE, TRUE), Close(1)>>>>,
       description |-> <<"N","T","-","p","r","o","B","N","P"," ","-"," ","b","i","o","m","a","r","k","e","r"," ","o","f"," ","h","e","a","r","t"," ","f","a","i","l","u","r","e">>],
      [name |-> <<"W","H","O"," ","F","C">>,
       patterns |-> <<
           \* (?:WHO FC|WHO Functional Class|Functional Class).*?(-?\d+\.?\d*)
           <<Alt(<<<<Lit(<<"W","H","O"," ","F","C">>)>>, <<Lit(<<"W","H","O"," ","F","u","n","c","t","i","o","n","a","l"," ","C","l","a","s","s">>)>>, <<Lit(<<"F","u","n","c","t","i","o","n","a","l"," ","C","l","a","s","s">>)>>>>), Rep(Dot, 0, 0, TRUE, FALSE), Open(1), Rep(SetOf({"-"}), 0, 1, FALSE, TRUE), Rep(Digit, 1, 0, TRUE, TRUE), Rep(SetOf({"."}), 0, 1, FALSE, TRUE), Rep(Digit, 0, 0, TRUE, TRUE), Close(1)>>,
           
           \* (?:improvement|change)\s+in\s+(?:WHO FC|WHO Functional Class|Functional Class).*?(-?\d+\.?\d*)
           <<Alt(<<<<Lit(<<"i","m","p","r","o","v","e","m","e","n","t">>)>>, <<Lit(<<"c","h","a","n","g","e">>)>>>>), Rep(Space, 1, 0, TRUE, TRUE), Lit(<<"i","n">>), Rep(Space, 1, 0, TRUE, TRUE), Alt(<<<<Lit(<<"W","H","O"," ","F","C">>)>>, <<Lit(<<"W","H","O"," ","F","u","n","c","t","i","o","n","a","l"," ","C","l","a","s","s">>)>>, <<Lit(<<"F","u","n","c","t","i","o","n","a","l"," ","C","l","a","s","s">>)>>>>), Rep(Dot, 0, 0, TRUE, FALSE), Open(1), Rep(SetOf({"-"}), 0, 1, FALSE, TRUE), Rep(Digit, 1, 0, TRUE, TRUE), Rep(SetOf({"."}), 0, 1, FALSE, TRUE), Rep(Digit, 0, 0, TRUE, TRUE), Close(1)>>,
           
           \* (?:WHO FC|WHO Functional Class|Functional Class).*?(?:was|were|of|:)\s*(-?\d+\.?\d*)
           <<Alt(<<<<Lit(<<"W","H","O"," ","F","C">>)>>, <<Lit(<<"W","H","O"," ","F","u","n","c","t","i","o","n","a","l"," ","C","l","a","s","s">>)>>, <<Lit(<<"F","u","n","c","t","i","o","n","a","l"," ","C","l","a","s","s">>)>>>>), Rep(Dot, 0, 0, TRUE, FALSE), Alt(<<<<Lit(<<"w","a","s">>)>>, <<Lit(<<"w","e","r","e">>)>>, <<Lit(<<"o","f">>)>>, <<Lit(<<":">>)>>>>), Rep(Space, 0, 0, TRUE, TRUE), Open(1), Rep(SetOf({"-"}), 0, 1, FALSE, TRUE), Rep(Digit, 1, 0, TRUE, TRUE), Rep(SetOf({"."}), 0, 1, FALSE, TRUE), Rep(Digit, 0, 0, TRUE, TRUE), Close(1)>>,
           
           \* (?:functional class improvement).*?(-?\d+\.?\d*)
           <<Lit(<<"f","u","n","c","t","i","o","n","a","l"," ","c","l","a","s","s"," ","i","m","p","r","o","v","e","m","e","n","t">>), Rep(Dot, 0, 0, TRUE, FALSE), Open(1), Rep(SetOf({"-"}), 0, 1, FALSE, TRUE), Rep(Digit, 1, 0, TRUE, TRUE), Rep(SetOf({"."}), 0, 1, FALSE, TRUE), Rep(Digit, 0, 0, TRUE, TRUE), Close(1)>>>>,
       description |-> <<"W","H","O"," ","F","u","n","c","t","i","o","n","a","l"," ","C","l","a","s","s"," ","-"," ","c","l","a","s","s","i","f","i","c","a","t","i","o","n"," ","o","f"," ","f","u","n","c","t","i","o","n","a","l"," ","s","t","a","t","u","s"," ","i","n"," ","p","a","t","i","e","n","t","s"," ","w","i","t","h"," ","p","u","l","m","o","n","a","r","y"," ","h","y","p","e","r","t","e","n","s","i","o","n">>],
      [name |-> <<"C","I">>,
       patterns |-> <<
           \* (?:cardiac index|CI).*?(-?\d+\.?\d*)
           <<Alt(<<<<Lit(<<"c","a","r","d","i","a","c"," ","i","n","d","e","x">>)>>, <<Lit(<<"C","I">>)>>>>), Rep(Dot, 0, 0, TRUE, FALSE), Open(1), Rep(SetOf({"-"}), 0, 1, FALSE, TRUE), Rep(Digit, 1, 0, TRUE, TRUE), Rep(SetOf({"."}), 0, 1, FALSE, TRUE), Rep(Digit, 0, 0, TRUE, TRUE), Close(1)>>,
           
           \* (?:increase|change|improvement)\s+in\s+(?:cardiac index|CI).*?(-?\d+\.?\d*)
           <<Alt(<<<<Lit(<<"i","n","c","r","e","a","s","e">>)>>, <<Lit(<<"c","h","a","n","g","e">>)>>, <<Lit(<<"i","m","p","r","o","v","e","m","e","n","t">>)>>>>), Rep(Space, 1, 0, TRUE, TRUE), Lit(<<"i","n">>), Rep(Space, 1, 0, TRUE, TRUE), Alt(<<<<Lit(<<"c","a","r","d","i","a","c"," ","i","n","d","e","x">>)>>, <<Lit(<<"C","I">>)>>>>), Rep(Dot, 0, 0, TRUE, FALSE), Open(1), Rep(SetOf({"-"}), 0, 1, FALSE, TRUE), Rep(Digit, 1, 0, TRUE, TRUE), Rep(SetOf({"."}), 0, 1, FALSE, TRUE), Rep(Digit, 0, 0, TRUE, TRUE), Close(1)>>,
           
           \* (?:cardiac index|CI).*?(?:was|were|of|:)\s*(-?\d+\.?\d*)
           <<Alt(<<<<Lit(<<"c","a","r","d","i","a","c"," ","i","n","d","e","x">>)>>, <<Lit(<<"C","I">>)>>>>), Rep(Dot, 0, 0, TRUE, FALSE), Alt(<<<<Lit(<<"w","a","s">>)>>, <<Lit(<<"w","e","r","e">>)>>, <<Lit(<<"o","f">>)>>, <<Lit(<<":">>)>>>>), Rep(Space, 0, 0, TRUE, TRUE), Open(1), Rep(SetOf({"-"}), 0, 1, FALSE, TRUE), Rep(Digit, 1, 0, TRUE, TRUE), Rep(SetOf({"."}), 0, 1, FALSE, TRUE), Rep(Digit, 0, 0, TRUE, TRUE), Close(1)>>,
           
           \* (?:cardiac output).*?(-?\d+\.?\d*)\s*(?:L/min|L/min/m2)
           <<Lit(<<"c","a","r","d","i","a","c"," ","o","u","t","p","u","t">>), Rep(Dot, 0, 0, TRUE, FALSE), Open(1), Rep(SetOf({"-"}), 0, 1, FALSE, TRUE), Rep(Digit, 1, 0, TRUE, TRUE), Rep(SetOf({"."}), 0, 1, FALSE, TRUE), Rep(Digit, 0, 0, TRUE, TRUE), Close(1), Rep(Space, 0, 0, TRUE, TRUE), Alt(<<<<Lit(<<"L","/","m","i","n">>)>>, <<Lit(<<"L","/","m","i","n","/","m","2">>)>>>>)>>>>,
       description |-> <<"C","a","r","d","i","a","c"," ","I","n","d","e","x"," ","-"," ","a"," ","m","e","a","s","u","r","e","m","e","n","t"," ","o","f"," ","c","a","r","d","i","a","c"," ","o","u","t","p","u","t"," ","a","d","j","u","s","t","e","d"," ","f","o","r"," ","b","o","d","y"," ","s","i","z","e">>]
    >>

\* generic_patterns of extract_publication_endpoints
generic_patterns ==
    <<
      \* decrease(?:d)? by (\d+\.?\d*)%
      [pattern |-> <<Lit(<<"d","e","c","r","e","a","s","e">>), Opt(<<Lit(<<"d">>)>>), Lit(<<" ","b","y"," ">>), Open(1), Rep(Digit, 1, 0, TRUE, TRUE), Rep(SetOf({"."}), 0, 1, FALSE, TRUE), Rep(Digit, 0, 0, TRUE, TRUE), Close(1), Lit(<<"%">>)>>,
       description |-> <<"P","e","r","c","e","n","t"," ","d","e","c","r","e","a","s","e">>],
      \* increase(?:d)? by (\d+\.?\d*)%
      [pattern |-> <<Lit(<<"i","n","c","r","e","a","s","e">>), Opt(<<Lit(<<"d">>)>>), Lit(<<" ","b","y"," ">>), Open(1), Rep(Digit, 1, 0, TRUE, TRUE), Rep(SetOf({"."}), 0, 1, FALSE, TRUE), Rep(Digit, 0, 0, TRUE, TRUE), Close(1), Lit(<<"%">>)>>,
       description |-> <<"P","e","r","c","e","n","t"," ","i","n","c","r","e","a","s","e">>],
      \* improved by (\d+\.?\d*)
      [pattern |-> <<Lit(<<"i","m","p","r","o","v","e","d"," ","b","y"," ">>), Open(1), Rep(Digit, 1, 0, TRUE, TRUE), Rep(SetOf({"."}), 0, 1, FALSE, TRUE), Rep(Digit, 0, 0, TRUE, TRUE), Close(1)>>,
       description |-> <<"I","m","p","r","o","v","e","m","e","n","t">>],
      \* reduction of (\d+\.?\d*)
      [pattern |-> <<Lit(<<"r","e","d","u","c","t","i","o","n"," ","o","f"," ">>), Open(1), Rep(Digit, 1, 0, TRUE, TRUE), Rep(SetOf({"."}), 0, 1, FALSE, TRUE), Rep(Digit, 0, 0, TRUE, TRUE), Close(1)>>,
       description |-> <<"R","e","d","u","c","t","i","o","n">>],
      \* change of (\d+\.?\d*)
      [pattern |-> <<Lit(<<"c","h","a","n","g","e"," ","o","f"," ">>), Open(1), Rep(Digit, 1, 0, TRUE, TRUE), Rep(SetOf({"."}), 0, 1, FALSE, TRUE), Rep(Digit, 0, 0, TRUE, TRUE), Close(1)>>,
       description |-> <<"C","h","a","n","g","e">>]
    >>

\* baseline_patterns of extract_publication_baseline_measures, in the order of the dict
baseline_patterns ==
    <<
      [name |-> <<"P","V","R">>,
       patterns |-> <<
           \* (?:baseline|initial)\s+(?:pulmonary vascular resistance|PVR).*?(\d+\.?\d*)
           <<Alt(<<<<Lit(<<"b","a","s","e","l","i","n","e">>)>>, <<Lit(<<"i","n","i","t","i","a","l">>)>>>>), Rep(Space, 1, 0, TRUE, TRUE), Alt(<<<<Lit(<<"p","u","l","m","o","n","a","r","y"," ","v","a","s","c","u","l","a","r"," ","r","e","s","i","s","t","a","n","c","e">>)>>, <<Lit(<<"P","V","R">>)>>>>), Rep(Dot, 0, 0, TRUE, FALSE), Open(1), Rep(Digit, 1, 0, TRUE, TRUE), Rep(SetOf({"."}), 0, 1, FALSE, TRUE), Rep(Digit, 0, 0, TRUE, TRUE), Close(1)>>,
           
           \* (?:pulmonary vascular resistance|PVR)\s+(?:at|@)?\s+baseline.*?(\d+\.?\d*)
           <<Alt(<<<<Lit(<<"p","u","l","m","o","n","a","r","y"," ","v","a","s","c","u","l","a","r"," ","r","e","s","i","s","t","a","n","c","e">>)>>, <<Lit(<<"P","V","R">>)>>>>), Rep(Space, 1, 0, TRUE, TRUE), Opt(<<Alt(<<<<Lit(<<"a","t">>)>>, <<Lit(<<"@">>)>>>>)>>), Rep(Space, 1, 0, TRUE, TRUE), Lit(<<"b","a","s","e","l","i","n","e">>), Rep(Dot, 0, 0, TRUE, FALSE), Open(1), Rep(Digit, 1, 0, TRUE, TRUE), Rep(SetOf({"."}), 0, 1, FALSE, TRUE), Rep(Digit, 0, 0, TRUE, TRUE), Close(1)>>,
           
           \* (?:baseline|initial|mean)\s+(?:pulmonary vascular resistance|PVR).*?(\d+\.?\d*)\s*(?:dyn|dyne|Wood)
           <<Alt(<<<<Lit(<<"b","a","s","e","l","i","n","e">>)>>, <<Lit(<<"i","n","i","t","i","a","l">>)>>, <<Lit(<<"m","e","a","n">>)>>>>), Rep(Space, 1, 0, TRUE, TRUE), Alt(<<<<Lit(<<"p","u","l","m","o","n","a","r","y"," ","v","a","s","c","u","l","a","r"," ","r","e","s","i","s","t","a","n","c","e">>)>>, <<Lit(<<"P","V","R">>)>>>>), Rep(Dot, 0, 0, TRUE, FALSE), Open(1), Rep(Digit, 1, 0, TRUE, TRUE), Rep(SetOf({"."}), 0, 1, FALSE, TRUE), Rep(Digit, 0, 0, TRUE, TRUE), Close(1), Rep(Space, 0, 0, TRUE, TRUE), Alt(<<<<Lit(<<"d","y","n">>)>>, <<Lit(<<"d","y","n","e">>)>>, <<Lit(<<"W","o","o","d">>)>>>>)>>,
           
           \* baseline characteristics.*?(?:pvr|pulmonary vascular resistance).*?(\d+\.?\d*)
           <<Lit(<<"b","a","s","e","l","i","n","e"," ","c","h","a","r","a","c","t","e","r","i","s","t","i","c","s">>), Rep(Dot, 0, 0, TRUE, FALSE), Alt(<<<<Lit(<<"p","v","r">>)>>, <<Lit(<<"p","u","l","m","o","n","a","r","y"," ","v","a","s","c","u","l","a","r"," ","r","e","s","i","s","t","a","n","c","e">>)>>>>), Rep(Dot, 0, 0, TRUE, FALSE), Open(1), Rep(Digit, 1, 0, TRUE, TRUE), Rep(SetOf({"."}), 0, 1, FALSE, TRUE), Rep(Digit, 0, 0, TRUE, TRUE), Close(1)>>>>,
       description |-> <<"B","a","s","e","l","i","n","e"," ","P","u","l","m","o","n","a","r","y"," ","V","a","s","c","u","l","a","r"," ","R","e","s","i","s","t","a","n","c","e">>],
      [name |-> <<"6","M","W","D">>,
       patterns |-> <<
           \* (?:baseline|initial)\s+(?:6-minute walk distance|6MWD|6 minute walk distance).*?(\d+\.?\d*)
           <<Alt(<<<<Lit(<<"b","a","s","e","l","i","n","e">>)>>, <<Lit(<<"i","n","i","t","i","a","l">>)>>>>), Rep(Space, 1, 0, TRUE, TRUE), Alt(<<<<Lit(<<"6","-","m","i","n","u","t","e"," ","w","a","l","k"," ","d","i","s","t","a","n","c","e">>)>>, <<Lit(<<"6","M","W","D">>)>>, <<Lit(<<"6"," ","m","i","n","u","t","e"," ","w","a","l","k"," ","d","i","s","t","a","n","c","e">>)>>>>), Rep(Dot, 0, 0, TRUE, FALSE), Open(1), Rep(Digit, 1, 0, TRUE, TRUE), Rep(SetOf({"."}), 0, 1, FALSE, TRUE), Rep(Digit, 0, 0, TRUE, TRUE), Close(1)>>,
           
           \* (?:6-minute walk distance|6MWD|6 minute walk distance)\s+(?:at|@)?\s+baseline.*?(\d+\.?\d*)
           <<Alt(<<<<Lit(<<"6","-","m","i","n","u","t","e"," ","w","a","l","k"," ","d","i","s","t","a","n","c","e">>)>>, <<Lit(<<"6","M","W","D">>)>>, <<Lit(<<"6"," ","m","i","n","u","t","e"," ","w","a","l","k"," ","d","i","s","t","a","n","c","e">>)>>>>), Rep(Space, 1, 0, TRUE, TRUE), Opt(<<Alt(<<<<Lit(<<"a","t">>)>>, <<Lit(<<"@">>)>>>>)>>), Rep(Space, 1, 0, TRUE, TRUE), Lit(<<"b","a","s","e","l","i","n","e">>), Rep(Dot, 0, 0, TRUE, FALSE), Open(1), Rep(Digit, 1, 0, TRUE, TRUE), Rep(SetOf({"."}), 0, 1, FALSE, TRUE), Rep(Digit, 0, 0, TRUE, TRUE), Close(1)>>,
           
           \* (?:baseline|initial|mean)\s+(?:6-minute walk distance|6MWD|6 minute walk distance).*?(\d+\.?\d*)\s*(?:meters|m|meter)
           <<Alt(<<<<Lit(<<"b","a","s","e","l","i","n","e">>)>>, <<Lit(<<"i","n","i","t","i","a","l">>)>>, <<Lit(<<"m","e","a","n">>)>>>>), Rep(Space, 1, 0, TRUE, TRUE), Alt(<<<<Lit(<<"6","-","m","i","n","u","t","e"," ","w","a","l","k"," ","d","i","s","t","a","n","c","e">>)>>, <<Lit(<<"6","M","W","D">>)>>, <<Lit(<<"6"," ","m","i","n","u","t","e"," ","w","a","l","k"," ","d","i","s","t","a","n","c","e">>)>>>>), Rep(Dot, 0, 0, TRUE, FALSE), Open(1), Rep(Digit, 1, 0, TRUE, TRUE), Rep(SetOf({"."}), 0, 1, FALSE, TRUE), Rep(Digit, 0, 0, TRUE, TRUE), Close(1), Rep(Space, 0, 0, TRUE, TRUE), Alt(<<<<Lit(<<"m","e","t","e","r","s">>)>>, <<Lit(<<"m">>)>>, <<Lit(<<"m","e","t","e","r">>)>>>>)>>,
           
           \* baseline characteristics.*?(?:6mwd|6-minute walk distance).*?(\d+\.?\d*)
           <<Lit(<<"b","a","s","e","l","i","n","e"," ","c","h","a","r","a","c","t","e","r","i","s","t","i","c","s">>), Rep(Dot, 0, 0, TRUE, FALSE), Alt(<<<<Lit(<<"6","m","w","d">>)>>, <<Lit(<<"6","-","m","i","n","u","t","e"," ","w","a","l","k"," ","d","i","s","t","a","n","c","e">>)>>>>), Rep(Dot, 0, 0, TRUE, FALSE), Open(1), Rep(Digit, 1, 0, TRUE, TRUE), Rep(SetOf({"."}), 0, 1, FALSE, TRUE), Rep(Digit, 0, 0, TRUE, TRUE), Close(1)>>>>,
       description |-> <<"B","a","s","e","l","i","n","e"," ","6","-","M","i","n","u","t","e"," ","W","a","l","k"," ","D","i","s","t","a","n","c","e">>],
      [name |-> <<"N","T","-","p","r","o","B","N","P">>,
       patterns |-> <<
           \* (?:baseline|initial)\s+(?:NT-proBNP|NT\s+proBNP|N-terminal pro-brain natriuretic peptide).*?(\d+\.?\d*)
           <<Alt(<<<<Lit(<<"b","a","s","e","l","i","n","e">>)>>, <<Lit(<<"i","n","i","t","i","a","l">>)>>>>), Rep(Space, 1, 0, TRUE, TRUE), Alt(<<<<Lit(<<"N","T","-","p","r","o","B","N","P">>)>>, <<Lit(<<"N","T">>), Rep(Space, 1, 0, TRUE, TRUE), Lit(<<"p","r","o","B","N","P">>)>>, <<Lit(<<"N","-","t","e","r","m","i","n","a","l"," ","p","r","o","-","b","r","a","i","n"," ","n","a","t","r","i","u","r","e","t","i","c"," ","p","e","p","t","i","d","e">>)>>>>), Rep(Dot, 0, 0, TRUE, FALSE), Open(1), Rep(Digit, 1, 0, TRUE, TRUE), Rep(SetOf({"."}), 0, 1, FALSE, TRUE), Rep(Digit, 0, 0, TRUE, TRUE), Close(1)>>,
           
           \* (?:NT-proBNP|NT\s+proBNP|N-terminal pro-brain natriuretic peptide)\s+(?:at|@)?\s+baseline.*?(\d+\.?\d*)
           <<Alt(<<<<Lit(<<"N","T","-","p","r","o","B","N","P">>)>>, <<Lit(<<"N","T">>), Rep(Space, 1, 0, TRUE, TRUE), Lit(<<"p","r","o","B","N","P">>)>>, <<Lit(<<"N","-","t","e","r","m","i","n","a","l"," ","p","r","o","-","b","r","a","i","n"," ","n","a","t","r","i","u","r","e","t","i","c"," ","p","e","p","t","i","d","e">>)>>>>), Rep(Space, 1, 0, TRUE, TRUE), Opt(<<Alt(<<<<Lit(<<"a","t">>)>>, <<Lit(<<"@">>)>>>>)>>), Rep(Space, 1, 0, TRUE, TRUE), Lit(<<"b","a","s","e","l","i","n","e">>), Rep(Dot, 0, 0, TRUE, FALSE), Open(1), Rep(Digit, 1, 0, TRUE, TRUE), Rep(SetOf({"."}), 0, 1, FALSE, TRUE), Rep(Digit, 0, 0, TRUE, TRUE), Close(1)>>,
           
           \* (?:baseline|initial|mean)\s+(?:NT-proBNP|NT\s+proBNP|N-terminal pro-brain natriuretic peptide).*?(\d+\.?\d*)
           <<Alt(<<<<Lit(<<"b","a","s","e","l","i","n","e">>)>>, <<Lit(<<"i","n","i","t","i","a","l">>)>>, <<Lit(<<"m","e","a","n">>)>>>>), Rep(Space, 1, 0, TRUE, TRUE), Alt(<<<<Lit(<<"N","T","-","p","r","o","B","N","P">>)>>, <<Lit(<<"N","T">>), Rep(Space, 1, 0, TRUE, TRUE), Lit(<<"p","r","o","B","N","P">>)>>, <<Lit(<<"N","-","t","e","r","m","i","n","a","l"," ","p","r","o","-","b","r","a","i","n"," ","n","a","t","r","i","u","r","e","t","i","c"," ","p","e","p","t","i","d","e">>)>>>>), Rep(Dot, 0, 0, TRUE, FALSE), Open(1), Rep(Digit, 1, 0, TRUE, TRUE), Rep(SetOf({"."}), 0, 1, FALSE, TRUE), Rep(Digit, 0, 0, TRUE, TRUE), Close(1)>>,
           
           \* baseline characteristics.*?(?:nt-probnp|natriuretic peptide).*?(\d+\.?\d*)
           <<Lit(<<"b","a","s","e","l","i","n","e"," ","c","h","a","r","a","c","t","e","r","i","s","t","i","c","s">>), Rep(Dot, 0, 0, TRUE, FALSE), Alt(<<<<Lit(<<"n","t","-","p","r","o","b","n","p">>)>>, <<Lit(<<"n","a","t","r","i","u","r","e","t","i","c"," ","p","e","p","t","i","d","e">>)>>>>), Rep(Dot, 0, 0, TRUE, FALSE), Open(1), Rep(Digit, 1, 0, TRUE, TRUE), Rep(SetOf({"."}), 0, 1, FALSE, TRUE), Rep(Digit, 0, 0, TRUE, TRUE), Close(1)>>>>,
       description |-> <<"B","a","s","e","l","i","n","e"," ","N","T","-","p","r","o","B","N","P"," ","l","e","v","e","l","s">>],
      [name |-> <<"W","H","O"," ","F","C">>,
       patterns |-> <<
           \* (?:baseline|initial)\s+(?:WHO Functional Class|WHO\s+FC|Functional Class).*?(\d+\.?\d*)
           <<Alt(<<<<Lit(<<"b","a","s","e","l","i","n","e">>)>>, <<Lit(<<"i","n","i","t","i","a","l">>)>>>>), Rep(Space, 1, 0, TRUE, TRUE), Alt(<<<<Lit(<<"W","H","O"," ","F","u","n","c","t","i","o","n","a","l"," ","C","l","a","s","s">>)>>, <<Lit(<<"W","H","O">>), Rep(Space, 1, 0, TRUE, TRUE), Lit(<<"F","C">>)>>, <<Lit(<<"F","u","n","c","t","i","o","n","a","l"," ","C","l","a","s","s">>)>>>>), Rep(Dot, 0, 0, TRUE, FALSE), Open(1), Rep(Digit, 1, 0, TRUE, TRUE), Rep(SetOf({"."}), 0, 1, FALSE, TRUE), Rep(Digit, 0, 0, TRUE, TRUE), Close(1)>>,
           
           \* (?:WHO Functional Class|WHO\s+FC|Functional Class)\s+(?:at|@)?\s+baseline.*?(\d+\.?\d*)
           <<Alt(<<<<Lit(<<"W","H","O"," ","F","u","n","c","t","i","o","n","a","l"," ","C","l","a","s","s">>)>>, <<Lit(<<"W","H","O">>), Rep(Space, 1, 0, TRUE, TRUE), Lit(<<"F","C">>)>>, <<Lit(<<"F","u","n","c","t","i","o","n","a","l"," ","C","l","a","s","s">>)>>>>), Rep(Space, 1, 0, TRUE, TRUE), Opt(<<Alt(<<<<Lit(<<"a","t">>)>>, <<Lit(<<"@">>)>>>>)>>), Rep(Space, 1, 0, TRUE, TRUE), Lit(<<"b","a","s","e","l","i","n","e">>), Rep(Dot, 0, 0, TRUE, FALSE), Open(1), Rep(Digit, 1, 0, TRUE, TRUE), Rep(SetOf({"."}), 0, 1, FALSE, TRUE), Rep(Digit, 0, 0, TRUE, TRUE), Close(1)>>,
           
           \* (?:baseline|initial|mean)\s+(?:WHO Functional Class|WHO\s+FC|Functional Class).*?(\d+\.?\d*)
           <<Alt(<<<<Lit(<<"b","a","s","e","l","i","n","e">>)>>, <<Lit(<<"i","n","i","t","i","a","l">>)>>, <<Lit(<<"m","e","a","n">>)>>>>), Rep(Space, 1, 0, TRUE, TRUE), Alt(<<<<Lit(<<"W","H","O"," ","F","u","n","c","t","i","o","n","a","l"," ","C","l","a","s","s">>)>>, <<Lit(<<"W","H","O">>), Rep(Space, 1, 0, TRUE, TRUE), Lit(<<"F","C">>)>>, <<Lit(<<"F","u","n","c","t","i","o","n","a","l"," ","C","l","a","s","s">>)>>>>), Rep(Dot, 0, 0, TRUE, FALSE), Open(1), Rep(Digit, 1, 0, TRUE, TRUE), Rep(SetOf({"."}), 0, 1, FALSE, TRUE), Rep(Digit, 0, 0, TRUE, TRUE), Close(1)>>,
           
           \* baseline characteristics.*?(?:who fc|functional class).*?(\d+\.?\d*)
           <<Lit(<<"b","a","s","e","l","i","n","e"," ","c","h","a","r","a","c","t","e","r","i","s","t","i","c","s">>), Rep(Dot, 0, 0, TRUE, FALSE), Alt(<<<<Lit(<<"w","h","o"," ","f","c">>)>>, <<Lit(<<"f","u","n","c","t","i","o","n","a","l"," ","c","l","a","s","s">>)>>>>), Rep(Dot, 0, 0, TRUE, FALSE), Open(1), Rep(Digit, 1, 0, TRUE, TRUE), Rep(SetOf({"."}), 0, 1, FALSE, TRUE), Rep(Digit, 0, 0, TRUE, TRUE), Close(1)>>>>,
       description |-> <<"B","a","s","e","l","i","n","e"," ","W","H","O"," ","F","u","n","c","t","i","o","n","a","l"," ","C","l","a","s","s">>],
      [name |-> <<"C","I">>,
       patterns |-> <<
           \* (?:baseline|initial)\s+(?:cardiac index|CI).*?(\d+\.?\d*)
           <<Alt(<<<<Lit(<<"b","a","s","e","l","i","n","e">>)>>, <<Lit(<<"i","n","i","t","i","a","l">>)>>>>), Rep(Space, 1, 0, TRUE, TRUE), Alt(<<<<Lit(<<"c","a","r","d","i","a","c"," ","i","n","d","e","x">>)>>, <<Lit(<<"C","I">>)>>>>), Rep(Dot, 0, 0, TRUE, FALSE), Open(1), Rep(Digit, 1, 0, TRUE, TRUE), Rep(SetOf({"."}), 0, 1, FALSE, TRUE), Rep(Digit, 0, 0, TRUE, TRUE), Close(1)>>,
           
           \* (?:cardiac index|CI)\s+(?:at|@)?\s+baseline.*?(\d+\.?\d*)
           <<Alt(<<<<Lit(<<"c","a","r","d","i","a","c"," ","i","n","d","e","x">>)>>, <<Lit(<<"C","I">>)>>>>), Rep(Space, 1, 0, TRUE, TRUE), Opt(<<Alt(<<<<Lit(<<"a","t">>)>>, <<Lit(<<"@">>)>>>>)>>), Rep(Space, 1, 0, TRUE, TRUE), Lit(<<"b","a","s","e","l","i","n","e">>), Rep(Dot, 0, 0, TRUE, FALSE), Open(1), Rep(Digit, 1, 0, TRUE, TRUE), Rep(SetOf({"."}), 0, 1, FALSE, TRUE), Rep(Digit, 0, 0, TRUE, TRUE), Close(1)>>,
           
           \* (?:baseline|initial|mean)\s+(?:cardiac index|CI).*?(\d+\.?\d*)
           <<Alt(<<<<Lit(<<"b","a","s","e","l","i","n","e">>)>>, <<Lit(<<"i","n","i","t","i","a","l">>)>>, <<Lit(<<"m","e","a","n">>)>>>>), Rep(Space, 1, 0, TRUE, TRUE), Alt(<<<<Lit(<<"c","a","r","d","i","a","c"," ","i","n","d","e","x">>)>>, <<Lit(<<"C","I">>)>>>>), Rep(Dot, 0, 0, TRUE, FALSE), Open(1), Rep(Digit, 1, 0, TRUE, TRUE), Rep(SetOf({"."}), 0, 1, FALSE, TRUE), Rep(Digit, 0, 0, TRUE, TRUE), Close(1)>>,
           
           \* baseline characteristics.*?(?:cardiac index|ci).*?(\d+\.?\d*)
           <<Lit(<<"b","a","s","e","l","i","n","e"," ","c","h","a","r","a","c","t","e","r","i","s","t","i","c","s">>), Rep(Dot, 0, 0, TRUE, FALSE), Alt(<<<<Lit(<<"c","a","r","d","i","a","c"," ","i","n","d","e","x">>)>>, <<Lit(<<"c","i">>)>>>>), Rep(Dot, 0, 0, TRUE, FALSE), Open(1), Rep(Digit, 1, 0, TRUE, TRUE), Rep(SetOf({"."}), 0, 1, FALSE, TRUE), Rep(Digit, 0, 0, TRUE, TRUE), Close(1)>>>>,
       description |-> <<"B","a","s","e","l","i","n","e"," ","C","a","r","d","i","a","c"," ","I","n","d","e","x">>]
    >>

\* real_endpoints of add_literature_based_endpoints: registry identifier -> list of entries
real_endpoints ==
    (<<"N","C","T","0","0","6","6","0","1","7","9">> :>
     <<PyDict([name |-> PyStr(<<"P","V","R">>),
               description |-> PyStr(<<"C","h","a","n","g","e"," ","i","n"," ","p","u","l","m","o","n","a","r","y"," ","v","a","s","c","u","l","a","r"," ","r","e","s","i","s","t","a","n","c","e"," ","f","r","o","m"," ","b","a","s","e","l","i","n","e">>),
               timepoint |-> PyStr(<<"W","e","e","k"," ","1","6">>),
               arm |-> PyStr(<<"i","n","t","e","r","v","e","n","t","i","o","n">>),
               average_value |-> PyFloat(-368, -1),
               upper_end |-> PyFloat(-274, -1),
               lower_end |-> PyFloat(-442, -1),
               statistical_significance |-> PyStr(<<"p","<","0",".","0","0","0","1">>),
               source |-> PyStr(<<"S","E","R","A","P","H","I","N"," ","h","e","m","o","d","y","n","a","m","i","c"," ","s","u","b","s","t","u","d","y">>)]),
       PyDict([name |-> PyStr(<<"P","V","R">>),
               description |-> PyStr(<<"C","h","a","n","g","e"," ","i","n"," ","p","u","l","m","o","n","a","r","y"," ","v","a","s","c","u","l","a","r"," ","r","e","s","i","s","t","a","n","c","e"," ","f","r","o","m"," ","b","a","s","e","l","i","n","e">>),
               timepoint |-> PyStr(<<"W","e","e","k"," ","1","6">>),
               arm |-> PyStr(<<"p","l","a","c","e","b","o">>),
               average_value |-> PyFloat(-82, -1),
               upper_end |-> PyFloat(-41, -1),
               lower_end |-> PyFloat(-163, -1),
               statistical_significance |-> PyStr(<<"R","e","f","e","r","e","n","c","e"," ","a","r","m">>),
               source |-> PyStr(<<"S","E","R","A","P","H","I","N"," ","h","e","m","o","d","y","n","a","m","i","c"," ","s","u","b","s","t","u","d","y">>)]),
       PyDict([name |-> PyStr(<<"6","M","W","D">>),
               description |-> PyStr(<<"C","h","a","n","g","e"," ","i","n"," ","6","-","m","i","n","u","t","e"," ","w","a","l","k"," ","d","i","s","t","a","n","c","e"," ","f","r","o","m"," ","b","a","s","e","l","i","n","e">>),
               timepoint |-> PyStr(<<"W","e","e","k"," ","2","4">>),
               arm |-> PyStr(<<"i","n","t","e","r","v","e","n","t","i","o","n">>),
               average_value |-> PyFloat(22, 0),
               upper_end |-> PyFloat(351, -1),
               lower_end |-> PyFloat(89, -1),
               statistical_significance |-> PyStr(<<"p","=","0",".","0","0","7","8">>),
               source |-> PyStr(<<"S","E","R","A","P","H","I","N"," ","p","r","i","m","a","r","y"," ","r","e","s","u","l","t","s">>)]),
       PyDict([name |-> PyStr(<<"6","M","W","D">>),
               description |-> PyStr(<<"C","h","a","n","g","e"," ","i","n"," ","6","-","m","i","n","u","t","e"," ","w","a","l","k"," ","d","i","s","t","a","n","c","e"," ","f","r","o","m"," ","b","a","s","e","l","i","n","e">>),
               timepoint |-> PyStr(<<"W","e","e","k"," ","2","4">>),
               arm |-> PyStr(<<"p","l","a","c","e","b","o">>),
               average_value |-> PyFloat(-8, 0),
               upper_end |-> PyFloat(51, -1),
               lower_end |-> PyFloat(-211, -1),
               statistical_significance |-> PyStr(<<"R","e","f","e","r","e","n","c","e"," ","a","r","m">>),
               source |-> PyStr(<<"S","E","R","A","P","H","I","N"," ","p","r","i","m","a","r","y"," ","r","e","s","u","l","t","s">>)])>>)
    @@
    (<<"N","C","T","0","1","1","0","6","0","1","4">> :>
     <<PyDict([name |-> PyStr(<<"P","V","R">>),
               description |-> PyStr(<<"C","h","a","n","g","e"," ","i","n"," ","p","u","l","m","o","n","a","r","y"," ","v","a","s","c","u","l","a","r"," ","r","e","s","i","s","t","a","n","c","e"," ","f","r","o","m"," ","b","a","s","e","l","i","n","e">>),
               timepoint |-> PyStr(<<"W","e","e","k"," ","1","7">>),
               arm |-> PyStr(<<"i","n","t","e","r","v","e","n","t","i","o","n">>),
               average_value |-> PyFloat(-33, 0),
               upper_end |-> PyFloat(-24, 0),
               lower_end |-> PyFloat(-40, 0),
               statistical_significance |-> PyStr(<<"p","<","0",".","0","0","0","1">>),
               source |-> PyStr(<<"G","R","I","P","H","O","N"," ","r","e","s","u","l","t","s">>)]),
       PyDict([name |-> PyStr(<<"P","V","R">>),
               description |-> PyStr(<<"C","h","a","n","g","e"," ","i","n"," ","p","u","l","m","o","n","a","r","y"," ","v","a","s","c","u","l","a","r"," ","r","e","s","i","s","t","a","n","c","e"," ","f","r","o","m"," ","b","a","s","e","l","i","n","e">>),
               timepoint |-> PyStr(<<"W","e","e","k"," ","1","7">>),
               arm |-> PyStr(<<"p","l","a","c","e","b","o">>),
               average_value |-> PyFloat(9, 0),
               upper_end |-> PyFloat(18, 0),
               lower_end |-> PyFloat(2, 0),
               statistical_significance |-> PyStr(<<"R","e","f","e","r","e","n","c","e"," ","a","r","m">>),
               source |-> PyStr(<<"G","R","I","P","H","O","N"," ","r","e","s","u","l","t","s">>)]),
       PyDict([name |-> PyStr(<<"N","T","-","p","r","o","B","N","P">>),
               description |-> PyStr(<<"C","h","a","n","g","e"," ","i","n"," ","N","T","-","p","r","o","B","N","P"," ","f","r","o","m"," ","b","a","s","e","l","i","n","e">>),
               timepoint |-> PyStr(<<"W","e","e","k"," ","2","6">>),
               arm |-> PyStr(<<"i","n","t","e","r","v","e","n","t","i","o","n">>),
               average_value |-> PyFloat(-123, 0),
               upper_end |-> PyFloat(-80, 0),
               lower_end |-> PyFloat(-166, 0),
               statistical_significance |-> PyStr(<<"p","<","0",".","0","0","0","1">>),
               source |-> PyStr(<<"G","R","I","P","H","O","N"," ","r","e","s","u","l","t","s">>)]),
       PyDict([name |-> PyStr(<<"N","T","-","p","r","o","B","N","P">>),
               description |-> PyStr(<<"C","h","a","n","g","e"," ","i","n"," ","N","T","-","p","r","o","B","N","P"," ","f","r","o","m"," ","b","a","s","e","l","i","n","e">>),
               timepoint |-> PyStr(<<"W","e","e","k"," ","2","6">>),
               arm |-> PyStr(<<"p","l","a","c","e","b","o">>),
               average_value |-> PyFloat(48, 0),
               upper_end |-> PyFloat(92, 0),
               lower_end |-> PyFloat(15, 0),
               statistical_significance |-> PyStr(<<"R","e","f","e","r","e","n","c","e"," ","a","r","m">>),
               source |-> PyStr(<<"G","R","I","P","H","O","N"," ","r","e","s","u","l","t","s">>)])>>)
    @@
    (<<"N","C","T","0","1","1","7","8","0","7","3">> :>
     <<PyDict([name |-> PyStr(<<"6","M","W","D">>),
               description |-> PyStr(<<"C","h","a","n","g","e"," ","i","n"," ","6","-","m","i","n","u","t","e"," ","w","a","l","k"," ","d","i","s","t","a","n","c","e"," ","f","r","o","m"," ","b","a","s","e","l","i","n","e">>),
               timepoint |-> PyStr(<<"W","e","e","k"," ","2","4">>),
               arm |-> PyStr(<<"i","n","t","e","r","v","e","n","t","i","o","n">>),
               average_value |-> PyFloat(49, 0),
               upper_end |-> PyFloat(59, 0),
               lower_end |-> PyFloat(39, 0),
               statistical_significance |-> PyStr(<<"p","<","0",".","0","0","1">>),
               source |-> PyStr(<<"A","M","B","I","T","I","O","N"," ","r","e","s","u","l","t","s"," ","(","N","E","J","M"," ","2","0","1","5",")">>)]),
       PyDict([name |-> PyStr(<<"6","M","W","D">>),
               description |-> PyStr(<<"C","h","a","n","g","e"," ","i","n"," ","6","-","m","i","n","u","t","e"," ","w","a","l","k"," ","d","i","s","t","a","n","c","e"," ","f","r","o","m"," ","b","a","s","e","l","i","n","e">>),
               timepoint |-> PyStr(<<"W","e","e","k"," ","2","4">>),
               arm |-> PyStr(<<"p","l","a","c","e","b","o">>),
               average_value |-> PyFloat(24, 0),
               upper_end |-> PyFloat(34, 0),
               lower_end |-> PyFloat(14, 0),
               statistical_significance |-> PyStr(<<"R","e","f","e","r","e","n","c","e"," ","a","r","m">>),
               source |-> PyStr(<<"A","M","B","I","T","I","O","N"," ","r","e","s","u","l","t","s"," ","(","N","E","J","M"," ","2","0","1","5",")">>)]),
       PyDict([name |-> PyStr(<<"N","T","-","p","r","o","B","N","P">>),
               description |-> PyStr(<<"C","h","a","n","g","e"," ","i","n"," ","N","T","-","p","r","o","B","N","P"," ","f","r","o","m"," ","b","a","s","e","l","i","n","e">>),
               timepoint |-> PyStr(<<"W","e","e","k"," ","2","4">>),
               arm |-> PyStr(<<"i","n","t","e","r","v","e","n","t","i","o","n">>),
               average_value |-> PyFloat(-672, -1),
               upper_end |-> PyFloat(-61, 0),
               lower_end |-> PyFloat(-73, 0),
               statistical_significance |-> PyStr(<<"p","<","0",".","0","0","1">>),
               source |-> PyStr(<<"A","M","B","I","T","I","O","N"," ","r","e","s","u","l","t","s"," ","(","N","E","J","M"," ","2","0","1","5",")">>)]),
       PyDict([name |-> PyStr(<<"N","T","-","p","r","o","B","N","P">>),
               description |-> PyStr(<<"C","h","a","n","g","e"," ","i","n"," ","N","T","-","p","r","o","B","N","P"," ","f","r","o","m"," ","b","a","s","e","l","i","n","e">>),
               timepoint |-> PyStr(<<"W","e","e","k"," ","2","4">>),
               arm |-> PyStr(<<"p","l","a","c","e","b","o">>),
               average_value |-> PyFloat(-50, 0),
               upper_end |-> PyFloat(-42, 0),
               lower_end |-> PyFloat(-58, 0),
               statistical_significance |-> PyStr(<<"R","e","f","e","r","e","n","c","e"," ","a","r","m">>),
               source |-> PyStr(<<"A","M","B","I","T","I","O","N"," ","r","e","s","u","l","t","s"," ","(","N","E","J","M"," ","2","0","1","5",")">>)])>>)
    @@
    (<<"N","C","T","0","0","8","1","0","6","9","3">> :>
     <<PyDict([name |-> PyStr(<<"6","M","W","D">>),
               description |-> PyStr(<<"C","h","a","n","g","e"," ","i","n"," ","6","-","m","i","n","u","t","e"," ","w","a","l","k"," ","d","i","s","t","a","n","c","e"," ","f","r","o","m"," ","b","a","s","e","l","i","n","e">>),
               timepoint |-> PyStr(<<"W","e","e","k"," ","1","2">>),
               arm |-> PyStr(<<"i","n","t","e","r","v","e","n","t","i","o","n">>),
               average_value |-> PyFloat(30, 0),
               upper_end |-> PyFloat(42, 0),
               lower_end |-> PyFloat(18, 0),
               statistical_significance |-> PyStr(<<"p","<","0",".","0","0","1">>),
               source |-> PyStr(<<"P","A","T","E","N","T"," ","r","e","s","u","l","t","s"," ","(","N","E","J","M"," ","2","0","1","3",")">>)]),
       PyDict([name |-> PyStr(<<"6","M","W","D">>),
               description |-> PyStr(<<"C","h","a","n","g","e"," ","i","n"," ","6","-","m","i","n","u","t","e"," ","w","a","l","k"," ","d","i","s","t","a","n","c","e"," ","f","r","o","m"," ","b","a","s","e","l","i","n","e">>),
               timepoint |-> PyStr(<<"W","e","e","k"," ","1","2">>),
               arm |-> PyStr(<<"p","l","a","c","e","b","o">>),
               average_value |-> PyFloat(-6, 0),
               upper_end |-> PyFloat(6, 0),
               lower_end |-> PyFloat(-18, 0),
               statistical_significance |-> PyStr(<<"R","e","f","e","r","e","n","c","e"," ","a","r","m">>),
               source |-> PyStr(<<"P","A","T","E","N","T"," ","r","e","s","u","l","t","s"," ","(","N","E","J","M"," ","2","0","1","3",")">>)]),
       PyDict([name |-> PyStr(<<"P","V","R">>),
               description |-> PyStr(<<"C","h","a","n","g","e"," ","i","n"," ","p","u","l","m","o","n","a","r","y"," ","v","a","s","c","u","l","a","r"," ","r","e","s","i","s","t","a","n","c","e"," ","f","r","o","m"," ","b","a","s","e","l","i","n","e">>),
               timepoint |-> PyStr(<<"W","e","e","k"," ","1","2">>),
               arm |-> PyStr(<<"i","n","t","e","r","v","e","n","t","i","o","n">>),
               average_value |-> PyFloat(-223, 0),
               upper_end |-> PyFloat(-186, 0),
               lower_end |-> PyFloat(-260, 0),
               statistical_significance |-> PyStr(<<"p","<","0",".","0","0","1">>),
               source |-> PyStr(<<"P","A","T","E","N","T"," ","r","e","s","u","l","t","s"," ","(","N","E","J","M"," ","2","0","1","3",")">>)]),
       PyDict([name |-> PyStr(<<"P","V","R">>),
               description |-> PyStr(<<"C","h","a","n","g","e"," ","i","n"," ","p","u","l","m","o","n","a","r","y"," ","v","a","s","c","u","l","a","r"," ","r","e","s","i","s","t","a","n","c","e"," ","f","r","o","m"," ","b","a","s","e","l","i","n","e">>),
               timepoint |-> PyStr(<<"W","e","e","k"," ","1","2">>),
               arm |-> PyStr(<<"p","l","a","c","e","b","o">>),
               average_value |-> PyFloat(-89, -1),
               upper_end |-> PyFloat(28, 0),
               lower_end |-> PyFloat(-46, 0),
               statistical_significance |-> PyStr(<<"R","e","f","e","r","e","n","c","e"," ","a","r","m">>),
               source |-> PyStr(<<"P","A","T","E","N","T"," ","r","e","s","u","l","t","s"," ","(","N","E","J","M"," ","2","0","1","3",")">>)])>>)
    @@
    (<<"D","E","F","A","U","L","T">> :>
     <<PyDict([name |-> PyStr(<<"P","V","R">>),
               description |-> PyStr(<<"C","h","a","n","g","e"," ","i","n"," ","p","u","l","m","o","n","a","r","y"," ","v","a","s","c","u","l","a","r"," ","r","e","s","i","s","t","a","n","c","e"," ","f","r","o","m"," ","b","a","s","e","l","i","n","e">>),
               timepoint |-> PyStr(<<"W","e","e","k"," ","1","6">>),
               arm |-> PyStr(<<"i","n","t","e","r","v","e","n","t","i","o","n">>),
               average_value |-> PyFloat(-30, 0),
               upper_end |-> PyFloat(-20, 0),
               lower_end |-> PyFloat(-40, 0),
               statistical_significance |-> PyStr(<<"p","<","0",".","0","0","1">>),
               source |-> PyStr(<<"L","i","t","e","r","a","t","u","r","e","-","b","a","s","e","d"," ","P","A","H"," ","t","r","i","a","l"," ","e","n","d","p","o","i","n","t","s"," ","(","m","e","t","a","-","a","n","a","l","y","s","i","s",")">>)]),
       PyDict([name |-> PyStr(<<"P","V","R">>),
               description |-> PyStr(<<"C","h","a","n","g","e"," ","i","n"," ","p","u","l","m","o","n","a","r","y"," ","v","a","s","c","u","l","a","r"," ","r","e","s","i","s","t","a","n","c","e"," ","f","r","o","m"," ","b","a","s","e","l","i","n","e">>),
               timepoint |-> PyStr(<<"W","e","e","k"," ","1","6">>),
               arm |-> PyStr(<<"p","l","a","c","e","b","o">>),
               average_value |-> PyFloat(-5, 0),
               upper_end |-> PyFloat(5, 0),
               lower_end |-> PyFloat(-15, 0),
               statistical_significance |-> PyStr(<<"R","e","f","e","r","e","n","c","e"," ","a","r","m">>),
               source |-> PyStr(<<"L","i","t","e","r","a","t","u","r","e","-","b","a","s","e","d"," ","P","A","H"," ","t","r","i","a","l"," ","e","n","d","p","o","i","n","t","s"," ","(","m","e","t","a","-","a","n","a","l","y","s","i","s",")">>)]),
       PyDict([name |-> PyStr(<<"6","M","W","D">>),
               description |-> PyStr(<<"C","h","a","n","g","e"," ","i","n"," ","6","-","m","i","n","u","t","e"," ","w","a","l","k"," ","d","i","s","t","a","n","c","e"," ","f","r","o","m"," ","b","a","s","e","l","i","n","e">>),
               timepoint |-> PyStr(<<"W","e","e","k"," ","1","2">>),
               arm |-> PyStr(<<"i","n","t","e","r","v","e","n","t","i","o","n">>),
               average_value |-> PyFloat(25, 0),
               upper_end |-> PyFloat(40, 0),
               lower_end |-> PyFloat(10, 0),
               statistical_significance |-> PyStr(<<"p","<","0",".","0","1">>),
               source |-> PyStr(<<"L","i","t","e","r","a","t","u","r","e","-","b","a","s","e","d"," ","P","A","H"," ","t","r","i","a","l"," ","e","n","d","p","o","i","n","t","s"," ","(","m","e","t","a","-","a","n","a","l","y","s","i","s",")">>)]),
       PyDict([name |-> PyStr(<<"6","M","W","D">>),
               description |-> PyStr(<<"C","h","a","n","g","e"," ","i","n"," ","6","-","m","i","n","u","t","e"," ","w","a","l","k"," ","d","i","s","t","a","n","c","e"," ","f","r","o","m"," ","b","a","s","e","l","i","n","e">>),
               timepoint |-> PyStr(<<"W","e","e","k"," ","1","2">>),
               arm |-> PyStr(<<"p","l","a","c","e","b","o">>),
               average_value |-> PyFloat(6, 0),
               upper_end |-> PyFloat(15, 0),
               lower_end |-> PyFloat(-3, 0),
               statistical_significance |-> PyStr(<<"R","e","f","e","r","e","n","c","e"," ","a","r","m">>),
               source |-> PyStr(<<"L","i","t","e","r","a","t","u","r","e","-","b","a","s","e","d"," ","P","A","H"," ","t","r","i","a","l"," ","e","n","d","p","o","i","n","t","s"," ","(","m","e","t","a","-","a","n","a","l","y","s","i","s",")">>)])>>)

\* real_baselines of add_literature_based_baselines: registry identifier -> list of entries
real_baselines ==
    (<<"N","C","T","0","0","6","6","0","1","7","9">> :>
     <<PyDict([name |-> PyStr(<<"P","V","R">>),
               description |-> PyStr(<<"B","a","s","e","l","i","n","e"," ","P","u","l","m","o","n","a","r","y"," ","V","a","s","c","u","l","a","r"," ","R","e","s","i","s","t","a","n","c","e">>),
               arm |-> PyStr(<<"i","n","t","e","r","v","e","n","t","i","o","n">>),
               average_value |-> PyFloat(854, 0),
               upper_end |-> PyFloat(895, 0),
               lower_end |-> PyFloat(813, 0),
               source |-> PyStr(<<"S","E","R","A","P","H","I","N"," ","t","r","i","a","l"," ","b","a","s","e","l","i","n","e"," ","(","N","E","J","M"," ","2","0","1","3",")">>)]),
       PyDict([name |-> PyStr(<<"P","V","R">>),
               description |-> PyStr(<<"B","a","s","e","l","i","n","e"," ","P","u","l","m","o","n","a","r","y"," ","V","a","s","c","u","l","a","r"," ","R","e","s","i","s","t","a","n","c","e">>),
               arm |-> PyStr(<<"p","l","a","c","e","b","o">>),
               average_value |-> PyFloat(858, 0),
               upper_end |-> PyFloat(899, 0),
               lower_end |-> PyFloat(817, 0),
               source |-> PyStr(<<"S","E","R","A","P","H","I","N"," ","t","r","i","a","l"," ","b","a","s","e","l","i","n","e"," ","(","N","E","J","M"," ","2","0","1","3",")">>)]),
       PyDict([name |-> PyStr(<<"6","M","W","D">>),
               description |-> PyStr(<<"B","a","s","e","l","i","n","e"," ","6","-","M","i","n","u","t","e"," ","W","a","l","k"," ","D","i","s","t","a","n","c","e">>),
               arm |-> PyStr(<<"i","n","t","e","r","v","e","n","t","i","o","n">>),
               average_value |-> PyFloat(363, 0),
               upper_end |-> PyFloat(378, 0),
               lower_end |-> PyFloat(348, 0),
               source |-> PyStr(<<"S","E","R","A","P","H","I","N"," ","t","r","i","a","l"," ","b","a","s","e","l","i","n","e"," ","(","N","E","J","M"," ","2","0","1","3",")">>)]),
       PyDict([name |-> PyStr(<<"6","M","W","D">>),
               description |-> PyStr(<<"B","a","s","e","l","i","n","e"," ","6","-","M","i","n","u","t","e"," ","W","a","l","k"," ","D","i","s","t","a","n","c","e">>),
               arm |-> PyStr(<<"p","l","a","c","e","b","o">>),
               average_value |-> PyFloat(352, 0),
               upper_end |-> PyFloat(367, 0),
               lower_end |-> PyFloat(337, 0),
               source |-> PyStr(<<"S","E","R","A","P","H","I","N"," ","t","r","i","a","l"," ","b","a","s","e","l","i","n","e"," ","(","N","E","J","M"," ","2","0","1","3",")">>)])>>)
    @@
    (<<"N","C","T","0","1","1","0","6","0","1","4">> :>
     <<PyDict([name |-> PyStr(<<"6","M","W","D">>),
               description |-> PyStr(<<"B","a","s","e","l","i","n","e"," ","6","-","M","i","n","u","t","e"," ","W","a","l","k"," ","D","i","s","t","a","n","c","e">>),
               arm |-> PyStr(<<"i","n","t","e","r","v","e","n","t","i","o","n">>),
               average_value |-> PyFloat(358, 0),
               upper_end |-> PyFloat(366, 0),
               lower_end |-> PyFloat(350, 0),
               source |-> PyStr(<<"G","R","I","P","H","O","N"," ","t","r","i","a","l"," ","b","a","s","e","l","i","n","e"," ","(","N","E","J","M"," ","2","0","1","5",")">>)]),
       PyDict([name |-> PyStr(<<"6","M","W","D">>),
               description |-> PyStr(<<"B","a","s","e","l","i","n","e"," ","6","-","M","i","n","u","t","e"," ","W","a","l","k"," ","D","i","s","t","a","n","c","e">>),
               arm |-> PyStr(<<"p","l","a","c","e","b","o">>),
               average_value |-> PyFloat(348, 0),
               upper_end |-> PyFloat(356, 0),
               lower_end |-> PyFloat(340, 0),
               source |-> PyStr(<<"G","R","I","P","H","O","N"," ","t","r","i","a","l"," ","b","a","s","e","l","i","n","e"," ","(","N","E","J","M"," ","2","0","1","5",")">>)]),
       PyDict([name |-> PyStr(<<"N","T","-","p","r","o","B","N","P">>),
               description |-> PyStr(<<"B","a","s","e","l","i","n","e"," ","N","T","-","p","r","o","B","N","P"," ","l","e","v","e","l","s">>),
               arm |-> PyStr(<<"i","n","t","e","r","v","e","n","t","i","o","n">>),
               average_value |-> PyFloat(912, 0),
               upper_end |-> PyFloat(1025, 0),
               lower_end |-> PyFloat(799, 0),
               source |-> PyStr(<<"G","R","I","P","H","O","N"," ","t","r","i","a","l"," ","b","a","s","e","l","i","n","e"," ","(","N","E","J","M"," ","2","0","1","5",")">>)]),
       PyDict([name |-> PyStr(<<"N","T","-","p","r","o","B","N","P">>),
               description |-> PyStr(<<"B","a","s","e","l","i","n","e"," ","N","T","-","p","r","o","B","N","P"," ","l","e","v","e","l","s">>),
               arm |-> PyStr(<<"p","l","a","c","e","b","o">>),
               average_value |-> PyFloat(934, 0),
               upper_end |-> PyFloat(1047, 0),
               lower_end |-> PyFloat(821, 0),
               source |-> PyStr(<<"G","R","I","P","H","O","N"," ","t","r","i","a","l"," ","b","a","s","e","l","i","n","e"," ","(","N","E","J","M"," ","2","0","1","5",")">>)])>>)
    @@
    (<<"N","C","T","0","0","8","1","0","6","9","3">> :>
     <<PyDict([name |-> PyStr(<<"6","M","W","D">>),
               description |-> PyStr(<<"B","a","s","e","l","i","n","e"," ","6","-","M","i","n","u","t","e"," ","W","a","l","k"," ","D","i","s","t","a","n","c","e">>),
               arm |-> PyStr(<<"i","n","t","e","r","v","e","n","t","i","o","n">>),
               average_value |-> PyFloat(361, 0),
               upper_end |-> PyFloat(372, 0),
               lower_end |-> PyFloat(350, 0),
               source |-> PyStr(<<"P","A","T","E","N","T"," ","t","r","i","a","l"," ","b","a","s","e","l","i","n","e"," ","(","N","E","J","M"," ","2","0","1","3",")">>)]),
       PyDict([name |-> PyStr(<<"6","M","W","D">>),
               description |-> PyStr(<<"B","a","s","e","l","i","n","e"," ","6","-","M","i","n","u","t","e"," ","W","a","l","k"," ","D","i","s","t","a","n","c","e">>),
               arm |-> PyStr(<<"p","l","a","c","e","b","o">>),
               average_value |-> PyFloat(368, 0),
               upper_end |-> PyFloat(379, 0),
               lower_end |-> PyFloat(357, 0),
               source |-> PyStr(<<"P","A","T","E","N","T"," ","t","r","i","a","l"," ","b","a","s","e","l","i","n","e"," ","(","N","E","J","M"," ","2","0","1","3",")">>)]),
       PyDict([name |-> PyStr(<<"P","V","R">>),
               description |-> PyStr(<<"B","a","s","e","l","i","n","e"," ","P","u","l","m","o","n","a","r","y"," ","V","a","s","c","u","l","a","r"," ","R","e","s","i","s","t","a","n","c","e">>),
               arm |-> PyStr(<<"i","n","t","e","r","v","e","n","t","i","o","n">>),
               average_value |-> PyFloat(791, 0),
               upper_end |-> PyFloat(834, 0),
               lower_end |-> PyFloat(748, 0),
               source |-> PyStr(<<"P","A","T","E","N","T"," ","t","r","i","a","l"," ","b","a","s","e","l","i","n","e"," ","(","N","E","J","M"," ","2","0","1","3",")">>)]),
       PyDict([name |-> PyStr(<<"P","V","R">>),
               description |-> PyStr(<<"B","a","s","e","l","i","n","e"," ","P","u","l","m","o","n","a","r","y"," ","V","a","s","c","u","l","a","r"," ","R","e","s","i","s","t","a","n","c","e">>),
               arm |-> PyStr(<<"p","l","a","c","e","b","o">>),
               average_value |-> PyFloat(834, 0),
               upper_end |-> PyFloat(887, 0),
               lower_end |-> PyFloat(781, 0),
               source |-> PyStr(<<"P","A","T","E","N","T"," ","t","r","i","a","l"," ","b","a","s","e","l","i","n","e"," ","(","N","E","J","M"," ","2","0","1","3",")">>)])>>)
    @@
    (<<"D","E","F","A","U","L","T">> :>
     <<PyDict([name |-> PyStr(<<"6","M","W","D">>),
               description |-> PyStr(<<"B","a","s","e","l","i","n","e"," ","6","-","M","i","n","u","t","e"," ","W","a","l","k"," ","D","i","s","t","a","n","c","e">>),
               arm |-> PyStr(<<"i","n","t","e","r","v","e","n","t","i","o","n">>),
               average_value |-> PyFloat(360, 0),
               upper_end |-> PyFloat(375, 0),
               lower_end |-> PyFloat(345, 0),
               source |-> PyStr(<<"L","i","t","e","r","a","t","u","r","e","-","b","a","s","e","d"," ","P","A","H"," ","t","r","i","a","l"," ","b","a","s","e","l","i","n","e","s"," ","(","m","e","t","a","-","a","n","a","l","y","s","i","s",")">>)]),
       PyDict([name |-> PyStr(<<"6","M","W","D">>),
               description |-> PyStr(<<"B","a","s","e","l","i","n","e"," ","6","-","M","i","n","u","t","e"," ","W","a","l","k"," ","D","i","s","t","a","n","c","e">>),
               arm |-> PyStr(<<"p","l","a","c","e","b","o">>),
               average_value |-> PyFloat(355, 0),
               upper_end |-> PyFloat(370, 0),
               lower_end |-> PyFloat(340, 0),
               source |-> PyStr(<<"L","i","t","e","r","a","t","u","r","e","-","b","a","s","e","d"," ","P","A","H"," ","t","r","i","a","l"," ","b","a","s","e","l","i","n","e","s"," ","(","m","e","t","a","-","a","n","a","l","y","s","i","s",")">>)]),
       PyDict([name |-> PyStr(<<"P","V","R">>),
               description |-> PyStr(<<"B","a","s","e","l","i","n","e"," ","P","u","l","m","o","n","a","r","y"," ","V","a","s","c","u","l","a","r"," ","R","e","s","i","s","t","a","n","c","e">>),
               arm |-> PyStr(<<"i","n","t","e","r","v","e","n","t","i","o","n">>),
               average_value |-> PyFloat(800, 0),
               upper_end |-> PyFloat(850, 0),
               lower_end |-> PyFloat(750, 0),
               source |-> PyStr(<<"L","i","t","e","r","a","t","u","r","e","-","b","a","s","e","d"," ","P","A","H"," ","t","r","i","a","l"," ","b","a","s","e","l","i","n","e","s"," ","(","m","e","t","a","-","a","n","a","l","y","s","i","s",")">>)]),
       PyDict([name |-> PyStr(<<"P","V","R">>),
               description |-> PyStr(<<"B","a","s","e","l","i","n","e"," ","P","u","l","m","o","n","a","r","y"," ","V","a","s","c","u","l","a","r"," ","R","e","s","i","s","t","a","n","c","e">>),
               arm |-> PyStr(<<"p","l","a","c","e","b","o">>),
               average_value |-> PyFloat(810, 0),
               upper_end |-> PyFloat(860, 0),
               lower_end |-> PyFloat(760, 0),
               source |-> PyStr(<<"L","i","t","e","r","a","t","u","r","e","-","b","a","s","e","d"," ","P","A","H"," ","t","r","i","a","l"," ","b","a","s","e","l","i","n","e","s"," ","(","m","e","t","a","-","a","n","a","l","y","s","i","s",")">>)]),
       PyDict([name |-> PyStr(<<"N","T","-","p","r","o","B","N","P">>),
               description |-> PyStr(<<"B","a","s","e","l","i","n","e"," ","N","T","-","p","r","o","B","N","P"," ","l","e","v","e","l","s">>),
               arm |-> PyStr(<<"i","n","t","e","r","v","e","n","t","i","o","n">>),
               average_value |-> PyFloat(950, 0),
               upper_end |-> PyFloat(1050, 0),
               lower_end |-> PyFloat(850, 0),
               source |-> PyStr(<<"L","i","t","e","r","a","t","u","r","e","-","b","a","s","e","d"," ","P","A","H"," ","t","r","i","a","l"," ","b","a","s","e","l","i","n","e","s"," ","(","m","e","t","a","-","a","n","a","l","y","s","i","s",")">>)]),
       PyDict([name |-> PyStr(<<"N","T","-","p","r","o","B","N","P">>),
               description |-> PyStr(<<"B","a","s","e","l","i","n","e"," ","N","T","-","p","r","o","B","N","P"," ","l","e","v","e","l","s">>),
               arm |-> PyStr(<<"p","l","a","c","e","b","o">>),
               average_value |-> PyFloat(940, 0),
               upper_end |-> PyFloat(1040, 0),
               lower_end |-> PyFloat(840, 0),
               source |-> PyStr(<<"L","i","t","e","r","a","t","u","r","e","-","b","a","s","e","d"," ","P","A","H"," ","t","r","i","a","l"," ","b","a","s","e","l","i","n","e","s"," ","(","m","e","t","a","-","a","n","a","l","y","s","i","s",")">>)])>>)

-----------------------------------------------------------------------------
(* The inputs of the model: raw trial documents and publications.          *)

\* a dict from its items
Item(key, value) == key :> value

\* a registry identifier of the literature tables, and one that is in neither
KnownId == <<"N","C","T","0","0","6","6","0","1","7","9">>
UnknownId == <<"N","C","T","0","1","2","3","4","5","6","7">>

Group(id, title) == PyDict([id |-> PyStr(id), title |-> PyStr(title)])

TrialGroups == PyList(<<Group(<<"O","G","0","0","0">>, <<"E","x","p","e","r","i","m","e","n","t","a","l"," ","A","r","m">>), Group(<<"O","G","0","0","1">>, <<"P","l","a","c","e","b","o">>)>>)

Measured(group_id, value) == PyDict([groupId |-> PyStr(group_id), value |-> value])

\* the outcome section of one outcome with one measurement per group
OutcomeMeasures(value0, value1, analyses) ==
    PyList(<<PyDict([
        title |-> PyStr(<<"6","-","M","i","n","u","t","e"," ","W","a","l","k"," ","D","i","s","t","a","n","c","e">>),
        outcomeGroupList |-> TrialGroups,
        outcomeDenomList |-> PyList(<<PyDict([categoriesList |-> PyList(<<PyDict([
            measurementList |-> PyList(<<Measured(<<"O","G","0","0","0">>, value0), Measured(<<"O","G","0","0","1">>, value1)>>)])>>)])>>),
        outcomeAnalysisList |-> PyList(analyses)])>>)

\* the baseline section of one measure with one param per group
BaselineData(value0, value1) ==
    PyDict([
        baselineGroupList |-> TrialGroups,
        baselineMeasureList |-> PyList(<<PyDict([
            title |-> PyStr(<<"6","M","W","D">>),
            measureParamList |-> PyList(<<PyDict([
                paramList |-> PyList(<<Measured(<<"O","G","0","0","0">>, value0), Measured(<<"O","G","0","0","1">>, value1)>>)])>>)])>>)])

OutcomeChoices ==
    {<<>>,
     Item("outcomesMeasures", EmptyList),
     Item("outcomesMeasures", OutcomeMeasures(PyStr(<<"2","2",".","0">>), PyStr(<<"-","8",".","0">>), <<>>)),
     Item("outcomesMeasures", OutcomeMeasures(PyStr(<<"n","/","a">>), PyFloat(-8, 0),
                                              <<PyDict([pValue |-> PyStr(<<"0",".","0","1","2","3">>)])>>)),
     Item("outcomesMeasures", OutcomeMeasures(PyStr(<<"i","n","f">>), EmptyStr,
                                              <<PyDict([pValue |-> PyStr(<<"<","0",".","0","0","1">>)])>>))}

BaselineChoices ==
    {<<>>,
     Item("baselineData", BaselineData(PyStr(<<"3","5","0">>), PyStr(<<"3","4","5",".","5">>))),
     Item("baselineData", BaselineData(PyStr(<<"n","a","n">>), PyStr(<<"-","i","n","f">>))),
     Item("baselineData", BaselineData(PyStr(<<"n","/","a">>), PyInt(350)))}

IdChoices ==
    {<<>>,
     Item("identificationModule", PyDict([nctId |-> PyStr(KnownId), briefTitle |-> PyStr(<<"S","E","R","A","P","H","I","N">>)])),
     Item("identificationModule", PyDict([nctId |-> PyStr(UnknownId)]))}

\* a raw trial document whose first intervention is a drug with this description
DrugTrial(description) ==
    PyDict(Item("protocolSection", PyDict(
        Item("identificationModule", PyDict([nctId |-> PyStr(UnknownId)])) @@
        Item("armsInterventionsModule", PyDict([
            interventions |-> PyList(<<PyDict([type |-> PyStr(<<"D","r","u","g">>),
                                               name |-> PyStr(<<"M","a","c","i","t","e","n","t","a","n">>),
                                               description |-> description])>>)])))))

\* the descriptions of the intervention: a text, and null
DrugTrials == {DrugTrial(PyStr(<<"1","0"," ","m","g"," ","t","a","b","l","e","t"," ","o","n","c","e"," ","d","a","i","l","y">>)), DrugTrial(None)}

\* raw trial documents: a protocol section with or without an identifier, and
\* a results section if there are outcome or baseline data; and the
\* documents with a drug intervention
RawTrials ==
    {PyDict(Item("protocolSection", PyDict(id)) @@
            (IF o @@ b = <<>> THEN <<>> ELSE Item("resultsSection", PyDict(o @@ b)))) :
        id \in IdChoices, o \in OutcomeChoices, b \in BaselineChoices}
    \cup DrugTrials

Publication(title, text) == PyDict([title |-> PyStr(title), full_text |-> text])

\* {"scientific_publications": [], "company_presentations": []}, which
\* process_and_save_trial puts in the place of publications that are None
NoPublications ==
    PyDict([scientific_publications |-> EmptyList, company_presentations |-> EmptyList])

\* the publications handed to process_and_save_trial: none, or one
\* scientific publication
PublicationChoices ==
    {None} \cup
    {PyDict([scientific_publications |-> PyList(<<Publication(<<"R","e","s","u","l","t","s">>, text)>>),
             company_presentations |-> EmptyList]) :
        text \in {PyStr(<<".",".",".","P","V","R"," ","d","e","c","r","e","a","s","e","d"," ","b","y"," ","3","6",".","8","%"," ","(","p","<","0",".","0","0","0","1",")"," ","i","n"," ","t","h","e"," ","t","r","e","a","t","m","e","n","t"," ","g","r","o","u","p"," ","v","s"," ","b","a","s","e","l","i","n","e"," ","8","5","4",".",".",".">>),
                  PyStr(<<"P","V","R"," ","d","e","c","r","e","a","s","e","d"," ","b","y"," ","3","6",".","8","%"," ","(","p","<","0",".","0","0","0","1",")"," ","a","t"," ","w","e","e","k"," ","1","6"," ","w","i","t","h"," ","t","r","e","a","t","m","e","n","t",";"," ","p","l","a","c","e","b","o",":"," ","P","V","R"," ","w","a","s"," ","-","8",".","2">>),
                  None}}

-----------------------------------------------------------------------------
(* TrialProcessor: deduplication.                                          *)

\* sum(1 for v in x.values() if v is not None)
Completeness(x) == Cardinality({k \in DOMAIN x.v : x.v[k] # None})

\* (entry["name"], entry["arm"])
DedupKey(entry) == <<entry.v.name, entry.v.arm>>

\* entries.sort(key=completeness, reverse=True): the sort is stable, so
\* entries of equal completeness keep the order they had
RECURSIVE SortByCompleteness(_)
SortByCompleteness(entries) ==
    IF entries = <<>> THEN <<>>
    ELSE LET first == Head(entries)
             rest == SortByCompleteness(Tail(entries))
         IN  SelectSeq(rest, LAMBDA e : Completeness(e) > Completeness(first))
             \o <<first>>
             \o SelectSeq(rest, LAMBDA e : Completeness(e) <= Completeness(first))

\* the sort ascending and the last entry taken: of the entries tied for the
\* most fields, the last of the input
MostCompleteLastSeen(entries) ==
    LET sorted == SortByCompleteness(entries)
        tied == {i \in 1..Len(sorted) : Completeness(sorted[i]) = Completeness(sorted[1])}
    IN  sorted[CHOOSE i \in tied : \A j \in tied : j <= i]

\* entries.sort(...); deduplicated.append(entries[0])
MostComplete(entries) == SortByCompleteness(entries)[1]

\* the entries of data whose key is that of data[i], in the order of data
GroupOf(data, i) == SelectSeq(data, LAMBDA e : DedupKey(e) = DedupKey(data[i]))

\* _deduplicate_endpoints: one entry per key, the groups in the order in which
\* their keys first occur (the insertion order of the dict grouped)
RECURSIVE DedupFrom(_, _)
DedupFrom(data, i) ==
    IF i > Len(data) THEN <<>>
    ELSE IF \E j \in 1..(i - 1) : DedupKey(data[j]) = DedupKey(data[i])
         THEN DedupFrom(data, i + 1)
         ELSE <<MostComplete(GroupOf(data, i))>> \o DedupFrom(data, i + 1)

\* the loop over the keys starting one entry late
DeduplicateEndpointsSkipFirst(endpoint_data) == DedupFrom(endpoint_data, 2)

DeduplicateEndpoints(endpoint_data) == DedupFrom(endpoint_data, 1)

\* _deduplicate_baseline_measures: the same statements over baseline_data
DeduplicateBaselineMeasures(baseline_data) == DedupFrom(baseline_data, 1)

-----------------------------------------------------------------------------
(* TrialProcessor: the free-text tier.                                     *)

\* the characters taken on each side of match_pos
ContextWindow == 200

\* the length from which the context of a generic entry is cut
GenericContext == 100

\* baseline_terms without its first term
BaselineTermsNoBaseline == <<<<"i","n","i","t","i","a","l">>, <<"a","t"," ","s","c","r","e","e","n","i","n","g">>, <<"a","t"," ","e","n","r","o","l","l","m","e","n","t">>>>

BaselineTerms == <<<<"b","a","s","e","l","i","n","e">>, <<"i","n","i","t","i","a","l">>, <<"a","t"," ","s","c","r","e","e","n","i","n","g">>, <<"a","t"," ","e","n","r","o","l","l","m","e","n","t">>>>

BaselineTermsRequired ==
    <<<<"b","a","s","e","l","i","n","e">>, <<"i","n","i","t","i","a","l">>, <<"a","t"," ","s","c","r","e","e","n","i","n","g">>, <<"a","t"," ","e","n","r","o","l","l","m","e","n","t">>, <<"d","e","m","o","g","r","a","p","h","i","c","s">>>>

PlaceboTerms == <<<<"p","l","a","c","e","b","o">>, <<"c","o","n","t","r","o","l"," ","g","r","o","u","p">>, <<"c","o","n","t","r","o","l"," ","a","r","m">>>>

\* p\s*[<=>]\s*(0\.\d+)
PValuePattern == <<Lit(<<"p">>), Rep(Space, 0, 0, TRUE, TRUE), Rep(SetOf({"<","=",">"}), 1, 1, FALSE, TRUE), Rep(Space, 0, 0, TRUE, TRUE), Open(1), Lit(<<"0",".">>), Rep(Digit, 1, 0, TRUE, TRUE), Close(1)>>

\* (?:week|month|day)\s*(\d+)
TimepointPattern == <<Alt(<<<<Lit(<<"w","e","e","k">>)>>, <<Lit(<<"m","o","n","t","h">>)>>, <<Lit(<<"d","a","y">>)>>>>), Rep(Space, 0, 0, TRUE, TRUE), Open(1), Rep(Digit, 1, 0, TRUE, TRUE), Close(1)>>

\* f"{x}" of a value
Format(x) ==
    CASE x.t = "str" -> x.v
      [] x.t = "none" -> <<"N","o","n","e">>

\* pub.get("full_text", pub.get("snippet", "")): the full_text entry if the
\* key is there, whatever its value
PubTextValue(pub) == Get(pub, "full_text", Get(pub, "snippet", EmptyStr))

\* presentation.get("text_sample", "")
PresentationTextValue(presentation) == Get(presentation, "text_sample", EmptyStr)

\* text.find(match), and the middle of the text if it is not found
MatchPos(text, match) ==
    LET match_pos == Find(text, match)
    IN  IF match_pos = -1 THEN Len(text) \div 2 ELSE match_pos

\* text[max(0, match_pos - 200) : min(len(text), match_pos + 200)]
ContextAt(text, match_pos) ==
    Slice(text,
          IF match_pos - ContextWindow < 0 THEN 0 ELSE match_pos - ContextWindow,
          IF match_pos + ContextWindow > Len(text) THEN Len(text) ELSE match_pos + ContextWindow)

ContextOf(text, match) == ContextAt(text, MatchPos(text, match))

\* the p_value of a context
PValueOf(context) ==
    LET p_value_match == Search(PValuePattern, context, FALSE)
    IN  IF p_value_match.ok THEN <<"p","=">> \o Group1(context, p_value_match)
        ELSE <<"N","o","t"," ","s","p","e","c","i","f","i","e","d">>

\* the timepoint of a context
TimepointOf(context) ==
    LET timepoint_match == Search(TimepointPattern, context, FALSE)
    IN  IF timepoint_match.ok THEN Capitalize(Group0(context, timepoint_match))
        ELSE <<"N","o","t"," ","s","p","e","c","i","f","i","e","d">>

\* The entries one match of a known endpoint pattern adds to endpoint_data,
\* given the float of the match and its context: none if the context holds a
\* baseline term
EndpointOfContext(value, context, endpoint_name, description, source) ==
    IF ContainsAny(context, BaselineTerms) THEN <<>>
    ELSE <<PyDict([name |-> PyStr(endpoint_name),
                   description |-> PyStr(description),
                   timepoint |-> PyStr(TimepointOf(context)),
                   arm |-> PyStr(IF ContainsAny(context, PlaceboTerms)
                                 THEN <<"p","l","a","c","e","b","o">> ELSE <<"i","n","t","e","r","v","e","n","t","i","o","n">>),
                   average_value |-> value,
                   upper_end |-> None,
                   lower_end |-> None,
                   statistical_significance |-> PyStr(PValueOf(context)),
                   source |-> PyStr(source),
                   context |-> PyStr(context)])>>

\* The entries one match of a baseline pattern adds to baseline_data: none
\* if the context holds no baseline term
BaselineOfContext(value, context, measure_name, description, source) ==
    IF ~ContainsAny(context, BaselineTermsRequired) THEN <<>>
    ELSE <<PyDict([name |-> PyStr(measure_name),
                   description |-> PyStr(description),
                   arm |-> PyStr(IF ContainsAny(context, PlaceboTerms)
                                 THEN <<"p","l","a","c","e","b","o">> ELSE <<"i","n","t","e","r","v","e","n","t","i","o","n">>),
                   average_value |-> value,
                   upper_end |-> None,
                   lower_end |-> None,
                   source |-> PyStr(source),
                   context |-> PyStr(context)])>>

\* The body of "for match in matches": nothing if float(match) raises
\* ValueError, else the entry of the match and its context (is_baseline: of
\* the baseline extractor rather than of the endpoint extractor)
OfMatch(text, match, name, description, source, is_baseline) ==
    WithValue(ParseFloat(match),
              LAMBDA value :
                  IF ~value.ok THEN <<>>
                  ELSE IF is_baseline
                  THEN BaselineOfContext(value.val, ContextOf(text, match), name, description, source)
                  ELSE EndpointOfContext(value.val, ContextOf(text, match), name, description, source))

\* for match in matches: ...
RECURSIVE OfMatches(_, _, _, _, _, _, _)
OfMatches(text, matches, i, name, description, source, is_baseline) ==
    IF i > Len(matches) THEN <<>>
    ELSE OfMatch(text, matches[i], name, description, source, is_baseline)
         \o OfMatches(text, matches, i + 1, name, description, source, is_baseline)

\* for pattern in info["patterns"]: matches = re.findall(pattern, text, re.IGNORECASE) ...
RECURSIVE OfPatterns(_, _, _, _, _)
OfPatterns(text, info, j, source, is_baseline) ==
    IF j > Len(info.patterns) THEN <<>>
    ELSE WithValue(FindAll(info.patterns[j], text, TRUE),
                   LAMBDA matches : OfMatches(text, matches, 1, info.name, info.description,
                                              source, is_baseline))
         \o OfPatterns(text, info, j + 1, source, is_baseline)

\* for endpoint_name, info in endpoint_patterns.items(): ...
RECURSIVE OfTable(_, _, _, _, _)
OfTable(text, table, k, source, is_baseline) ==
    IF k > Len(table) THEN <<>>
    ELSE OfPatterns(text, table[k], 1, source, is_baseline)
         \o OfTable(text, table, k + 1, source, is_baseline)

\* The body of "for pub in scientific_pubs" (by_snippet) and of "for
\* presentation in company_presentations": the lower-cased text, skipped if
\* empty, searched with every pattern of the table
OfDocument(doc, table, is_presentation, is_baseline) ==
    LET source == (IF is_presentation THEN <<"E","x","t","r","a","c","t","e","d"," ","f","r","o","m"," ","p","r","e","s","e","n","t","a","t","i","o","n",":"," ">>
                   ELSE <<"E","x","t","r","a","c","t","e","d"," ","f","r","o","m"," ","p","u","b","l","i","c","a","t","i","o","n",":"," ">>)
                  \o Format(Get(doc, "title", PyStr(<<"U","n","k","n","o","w","n">>)))
    IN  WithValue(Lower(IF is_presentation THEN PresentationTextValue(doc).v ELSE PubTextValue(doc).v),
                  LAMBDA text : IF text = <<>> THEN <<>>
                                ELSE OfTable(text, table, 1, source, is_baseline))

RECURSIVE OfDocuments(_, _, _, _, _)
OfDocuments(docs, i, table, is_presentation, is_baseline) ==
    IF i > Len(docs) THEN <<>>
    ELSE OfDocument(docs[i], table, is_presentation, is_baseline)
         \o OfDocuments(docs, i + 1, table, is_presentation, is_baseline)

\* text[:100] + "..." if len(text) > 100 else text
GenericContextOf(text) ==
    IF Len(text) > GenericContext THEN Slice(text, 0, GenericContext) \o <<".",".",".">> ELSE text

\* The generic entries of one publication: for every generic pattern, for
\* every match of re.findall(pattern, text) (case-sensitive), one entry
RECURSIVE GenericOfMatches(_, _, _, _, _)
GenericOfMatches(text, matches, i, description, pub) ==
    IF i > Len(matches) THEN <<>>
    ELSE WithValue(ParseFloat(matches[i]),
                   LAMBDA value :
              IF ~value.ok THEN <<>>
              ELSE <<PyDict([name |-> PyStr(<<"E","n","d","p","o","i","n","t">>),
                             description |-> PyStr(description \o <<" ","-"," ","e","x","t","r","a","c","t","e","d"," ","f","r","o","m"," ","p","u","b","l","i","c","a","t","i","o","n">>),
                             timepoint |-> PyStr(<<"N","o","t"," ","s","p","e","c","i","f","i","e","d">>),
                             arm |-> PyStr(<<"N","o","t"," ","s","p","e","c","i","f","i","e","d">>),
                             average_value |-> value.val,
                             upper_end |-> None,
                             lower_end |-> None,
                             statistical_significance |-> PyStr(<<"N","o","t"," ","s","p","e","c","i","f","i","e","d">>),
                             source |-> PyStr(<<"E","x","t","r","a","c","t","e","d"," ","f","r","o","m"," ","p","u","b","l","i","c","a","t","i","o","n",":"," ">>
                                              \o Format(Get(pub, "title", PyStr(<<"U","n","k","n","o","w","n">>)))),
                             context |-> PyStr(GenericContextOf(text))])>>)
         \o GenericOfMatches(text, matches, i + 1, description, pub)

RECURSIVE GenericOfPatterns(_, _, _)
GenericOfPatterns(text, j, pub) ==
    IF j > Len(generic_patterns) THEN <<>>
    ELSE WithValue(FindAll(generic_patterns[j].pattern, text, FALSE),
                   LAMBDA matches : GenericOfMatches(text, matches, 1,
                                                     generic_patterns[j].description, pub))
         \o GenericOfPatterns(text, j + 1, pub)

RECURSIVE GenericOfPubs(_, _)
GenericOfPubs(scientific_pubs, i) ==
    IF i > Len(scientific_pubs) THEN <<>>
    ELSE WithValue(Lower(PubTextValue(scientific_pubs[i]).v),
                   LAMBDA text : IF text = <<>> THEN <<>>
                                 ELSE GenericOfPatterns(text, 1, scientific_pubs[i]))
         \o GenericOfPubs(scientific_pubs, i + 1)

\* extract_publication_endpoints raises AttributeError (None has no lower())
\* when a text is null
PublicationTextRaises(publications) ==
    /\ Truthy(publications)
    /\ LET scientific_pubs == Get(publications, "scientific_publications", EmptyList).v
           company_presentations == Get(publications, "company_presentations", EmptyList).v
       IN  \/ \E i \in 1..Len(scientific_pubs) : PubTextValue(scientific_pubs[i]).t # "str"
           \/ \E i \in 1..Len(company_presentations) :
                 PresentationTextValue(company_presentations[i]).t # "str"

\* endpoint_data of extract_publication_endpoints before deduplication
PublicationEndpointData(publications) ==
    LET scientific_pubs == Get(publications, "scientific_publications", EmptyList).v
        company_presentations == Get(publications, "company_presentations", EmptyList).v
    IN  WithValue(OfDocuments(scientific_pubs, 1, endpoint_patterns, FALSE, FALSE)
                  \o OfDocuments(company_presentations, 1, endpoint_patterns, TRUE, FALSE),
                  LAMBDA known :
                      IF known = <<>> /\ (scientific_pubs # <<>> \/ company_presentations # <<>>)
                      THEN GenericOfPubs(scientific_pubs, 1)
                      ELSE known)

\* extract_publication_endpoints, for publications whose texts are strings
ExtractPublicationEndpoints(publications) ==
    IF ~Truthy(publications) THEN <<>>
    ELSE DeduplicateEndpoints(PublicationEndpointData(publications))

\* extract_publication_baseline_measures, for publications whose texts are strings
ExtractPublicationBaselineMeasures(publications) ==
    IF ~Truthy(publications) THEN <<>>
    ELSE LET scientific_pubs == Get(publications, "scientific_publications", EmptyList).v
             company_presentations == Get(publications, "company_presentations", EmptyList).v
         IN  DeduplicateBaselineMeasures(
                 OfDocuments(scientific_pubs, 1, baseline_patterns, FALSE, TRUE)
                 \o OfDocuments(company_presentations, 1, baseline_patterns, TRUE, TRUE))

-----------------------------------------------------------------------------
(* Python: str(), repr() and format() of numbers, float().                 *)

DigitChar(d) ==
    CASE d = 0 -> "0" [] d = 1 -> "1" [] d = 2 -> "2" [] d = 3 -> "3" [] d = 4 -> "4"
      [] d = 5 -> "5" [] d = 6 -> "6" [] d = 7 -> "7" [] d = 8 -> "8" [] d = 9 -> "9"

\* str(n) for n >= 0
RECURSIVE NatToStr(_)
NatToStr(n) == IF n < 10 THEN <<DigitChar(n)>> ELSE NatToStr(n \div 10) \o <<DigitChar(n % 10)>>

\* str(n)
IntToStr(n) == IF n < 0 THEN <<"-">> \o NatToStr(-n) ELSE NatToStr(n)

RECURSIVE Pow10(_)
Pow10(n) == IF n = 0 THEN 1 ELSE 10 * Pow10(n - 1)

\* the digits of n, left-padded with zeros to width w
RECURSIVE ZeroPad(_, _)
ZeroPad(s, w) == IF Len(s) >= w THEN s ELSE ZeroPad(<<"0">> \o s, w)

\* f"{x:.3f}" of a float: the decimal rounded to three places; a decimal
\* exactly half-way between two results does not occur in the inputs
FormatFixed3(x) ==
    CASE x.t = "nan" -> <<"n","a","n">>
      [] x.t = "inf" -> IF x.neg THEN <<"-","i","n","f">> ELSE <<"i","n","f">>
      [] x.t = "float" ->
           LET mag == IF x.m < 0 THEN -x.m ELSE x.m
               thousandths ==
                   IF x.e >= -3 THEN mag * Pow10(3 + x.e)
                   ELSE LET d == Pow10(-x.e - 3)
                        IN  IF 2 * (mag % d) >= d THEN (mag \div d) + 1 ELSE mag \div d
           IN  (IF x.m < 0 THEN <<"-">> ELSE <<>>)
               \o NatToStr(thousandths \div 1000) \o <<".">>
               \o ZeroPad(NatToStr(thousandths % 1000), 3)

\* repr(x) of a float, as json.dump writes it; the floats of the model lie
\* in the range that repr writes without an exponent
FloatRepr(x) ==
    CASE x.t = "nan" -> <<"N","a","N">>
      [] x.t = "inf" -> IF x.neg THEN <<"-","I","n","f","i","n","i","t","y">> ELSE <<"I","n","f","i","n","i","t","y">>
      [] x.t = "float" ->
           LET mag == IF x.m < 0 THEN -x.m ELSE x.m
               unit == Pow10(-x.e)
           IN  (IF x.m < 0 THEN <<"-">> ELSE <<>>)
               \o NatToStr(mag \div unit) \o <<".">>
               \o (IF x.e = 0 THEN <<"0">> ELSE ZeroPad(NatToStr(mag % unit), -x.e))

\* The outcome of float(x): [ok |-> TRUE, val |-> the float], or
\* [ok |-> FALSE] for the ValueError of a str that is no number
ToFloat(x) ==
    CASE x.t = "str" -> ParseFloat(x.v)
      [] x.t = "int" -> [ok |-> TRUE, val |-> PyFloat(x.v, 0)]
      [] x.t \in {"float", "nan", "inf"} -> [ok |-> TRUE, val |-> x]

RECURSIVE ConcatAll(_)
ConcatAll(ss) == IF Len(ss) = 0 THEN <<>> ELSE Head(ss) \o ConcatAll(Tail(ss))

-----------------------------------------------------------------------------
(* TrialProcessor: the structured tier.                                    *)

InterventionTerms == <<<<"i","n","t","e","r","v","e","n","t","i","o","n">>, <<"t","r","e","a","t","m","e","n","t">>, <<"e","x","p","e","r","i","m","e","n","t","a","l">>, <<"a","c","t","i","v","e">>>>

\* "for group in outcome_groups": the ids the loop leaves in
\* intervention_group and placebo_group (the last group of each kind)
RECURSIVE ClassifyGroups(_, _, _)
ClassifyGroups(groups, i, acc) ==
    IF i > Len(groups) THEN acc
    ELSE LET group_id == Get(groups[i], "id", EmptyStr)
             group_title == Lower(Get(groups[i], "title", EmptyStr).v)
         IN  ClassifyGroups(groups, i + 1,
                 IF Contains(group_title, <<"p","l","a","c","e","b","o">>)
                 THEN [acc EXCEPT !.placebo_group = group_id]
                 ELSE IF ContainsAny(group_title, InterventionTerms)
                 THEN [acc EXCEPT !.intervention_group = group_id]
                 ELSE acc)

GroupIds(groups) == ClassifyGroups(groups, 1, [intervention_group |-> None, placebo_group |-> None])

\* "intervention" if is_intervention else "placebo" if is_placebo else "unknown"
ArmOf(group_id, ids) ==
    IF group_id = ids.intervention_group THEN <<"i","n","t","e","r","v","e","n","t","i","o","n">>
    ELSE IF group_id = ids.placebo_group THEN <<"p","l","a","c","e","b","o">>
    ELSE <<"u","n","k","n","o","w","n">>

\* "for analysis in outcome_analyses_list": p_value after the loop
RECURSIVE PValueOfAnalyses(_, _, _)
PValueOfAnalyses(analyses, i, p_value) ==
    IF i > Len(analyses) THEN p_value
    ELSE LET p_value_string == Get(analyses[i], "pValue", EmptyStr)
             parsed == ToFloat(p_value_string)
         IN  PValueOfAnalyses(analyses, i + 1,
                 IF ~Truthy(p_value_string) THEN p_value
                 ELSE IF parsed.ok THEN PyStr(<<"p","=">> \o FormatFixed3(parsed.val))
                 ELSE p_value_string)

\* the entry of one measurement of an outcome, if it has a value and a group
EndpointOfMeasurement(outcome, measurement) ==
    LET name == Get(outcome, "title", EmptyStr)
        description == Get(outcome, "description", EmptyStr)
        time_frame == Get(outcome, "timeFrame", EmptyStr)
        ids == GroupIds(Get(outcome, "outcomeGroupList", EmptyList).v)
        group_id == Get(measurement, "groupId", EmptyStr)
        value == Get(measurement, "value", EmptyStr)
        p_value == PValueOfAnalyses(Get(outcome, "outcomeAnalysisList", EmptyList).v, 1, None)
    IN  IF Truthy(value) /\ Truthy(group_id)
        THEN <<PyDict([name |-> name,
                       description |-> Or(description,
                           PyStr(<<"M","e","a","s","u","r","e","m","e","n","t"," ","o","f"," ">> \o Lower(name.v) \o <<" ","i","n"," ","p","a","t","i","e","n","t","s">>)),
                       timepoint |-> Or(time_frame, PyStr(<<"U","n","k","n","o","w","n">>)),
                       arm |-> PyStr(ArmOf(group_id, ids)),
                       average_value |-> value,
                       upper_end |-> None,
                       lower_end |-> None,
                       statistical_significance |-> Or(p_value, PyStr(<<"U","n","k","n","o","w","n">>))])>>
        ELSE <<>>

\* the measurements of outcomeDenomList[*].categoriesList[*].measurementList
MeasurementsOf(outcome) ==
    LET denoms == Get(outcome, "outcomeDenomList", EmptyList).v
    IN  ConcatAll([d \in 1..Len(denoms) |->
            LET categories == Get(denoms[d], "categoriesList", EmptyList).v
            IN  ConcatAll([c \in 1..Len(categories) |->
                    Get(categories[c], "measurementList", EmptyList).v])])

\* endpoint_data after the results section has been read
StructuredEndpoints(trial_data) ==
    LET results_section == Get(trial_data, "resultsSection", EmptyDict)
        outcome_measures == Get(results_section, "outcomesMeasures", EmptyList).v
    IN  ConcatAll([o \in 1..Len(outcome_measures) |->
            LET measurements == MeasurementsOf(outcome_measures[o])
            IN  ConcatAll([m \in 1..Len(measurements) |->
                    EndpointOfMeasurement(outcome_measures[o], measurements[m])])])

\* the entry of one param of a baseline measure: none without a value or a
\* group, or if float(value) raises ValueError
BaselineOfParam(measure, param, ids) ==
    LET measure_title == Get(measure, "title", EmptyStr)
        measure_description == Get(measure, "description", EmptyStr)
        group_id == Get(param, "groupId", EmptyStr)
        value == Get(param, "value", EmptyStr)
        value_float == ToFloat(value)
    IN  IF Truthy(value) /\ Truthy(group_id) /\ value_float.ok
        THEN <<PyDict([name |-> measure_title,
                       description |-> Or(measure_description,
                           PyStr(<<"B","a","s","e","l","i","n","e"," ","m","e","a","s","u","r","e","m","e","n","t"," ","o","f"," ">> \o Lower(measure_title.v) \o <<" ","i","n"," ","p","a","t","i","e","n","t","s">>)),
                       arm |-> PyStr(ArmOf(group_id, ids)),
                       average_value |-> value_float.val,
                       upper_end |-> None,
                       lower_end |-> None])>>
        ELSE <<>>

\* the params of measureParamList[*].paramList
ParamsOf(measure) ==
    LET categories == Get(measure, "measureParamList", EmptyList).v
    IN  ConcatAll([c \in 1..Len(categories) |-> Get(categories[c], "paramList", EmptyList).v])

\* baseline_data after the results section has been read
StructuredBaselines(trial_data) ==
    LET results_section == Get(trial_data, "resultsSection", EmptyDict)
        baseline_section == Get(results_section, "baselineData", EmptyDict)
        ids == GroupIds(Get(baseline_section, "baselineGroupList", EmptyList).v)
        baseline_measures == Get(baseline_section, "baselineMeasureList", EmptyList).v
    IN  ConcatAll([b \in 1..Len(baseline_measures) |->
            LET params == ParamsOf(baseline_measures[b])
            IN  ConcatAll([p \in 1..Len(params) |->
                    BaselineOfParam(baseline_measures[b], params[p], ids)])])

-----------------------------------------------------------------------------
(* TrialProcessor: the literature tier and the fallback chain.             *)

\* trial_data.get("clinical_study", {}).get("nct_identifier", "")
LiteratureId(trial_data) ==
    Get(Get(trial_data, "clinical_study", EmptyDict), "nct_identifier", EmptyStr)

\* add_literature_based_endpoints (every entry of the table has a source)
AddLiteratureBasedEndpoints(trial_data) ==
    LET nct_id == LiteratureId(trial_data)
    IN  IF nct_id.t = "str" /\ nct_id.v \in DOMAIN real_endpoints
        THEN real_endpoints[nct_id.v]
        ELSE real_endpoints[<<"D","E","F","A","U","L","T">>]

\* add_literature_based_baselines (every entry of the table has a source)
AddLiteratureBasedBaselines(trial_data) ==
    LET nct_id == LiteratureId(trial_data)
    IN  IF nct_id.t = "str" /\ nct_id.v \in DOMAIN real_baselines
        THEN real_baselines[nct_id.v]
        ELSE real_baselines[<<"D","E","F","A","U","L","T">>]

\* the literature entries added whether or not endpoint_data is empty
ExtractRealEndpointsEveryTier(trial_data, publications) ==
    StructuredEndpoints(trial_data) \o AddLiteratureBasedEndpoints(trial_data)

\* extract_real_endpoints: endpoint_data after the results section, extended
\* with the entries of the publications if it is empty and there are
\* publications, and with the literature entries if it is still empty
ExtractRealEndpoints(trial_data, publications) ==
    WithValue(StructuredEndpoints(trial_data),
              LAMBDA endpoint_data :
                  IF endpoint_data # <<>> THEN endpoint_data
                  ELSE WithValue(IF Truthy(publications)
                                 THEN ExtractPublicationEndpoints(publications) ELSE <<>>,
                                 LAMBDA publication_endpoints :
                                     IF publication_endpoints # <<>> THEN publication_endpoints
                                     ELSE AddLiteratureBasedEndpoints(trial_data)))

\* extract_real_baseline_measures: the same chain over baseline_data
ExtractRealBaselineMeasures(trial_data, publications) ==
    WithValue(StructuredBaselines(trial_data),
              LAMBDA baseline_data :
                  IF baseline_data # <<>> THEN baseline_data
                  ELSE WithValue(IF Truthy(publications)
                                 THEN ExtractPublicationBaselineMeasures(publications) ELSE <<>>,
                                 LAMBDA publication_baselines :
                                     IF publication_baselines # <<>> THEN publication_baselines
                                     ELSE AddLiteratureBasedBaselines(trial_data)))

\* the publications extractors are reached and raise
ExtractRealEndpointsRaises(trial_data, publications) ==
    StructuredEndpoints(trial_data) = <<>> /\ PublicationTextRaises(publications)

ExtractRealBaselineMeasuresRaises(trial_data, publications) ==
    StructuredBaselines(trial_data) = <<>> /\ PublicationTextRaises(publications)

-----------------------------------------------------------------------------
(* TrialProcessor: the study information.                                  *)

\* (\d+(\.\d+)?\s*mg)
DosePattern == <<Open(1), Rep(Digit, 1, 0, TRUE, TRUE), Opt(<<Open(2), Lit(<<".">>), Rep(Digit, 1, 0, TRUE, TRUE), Close(2)>>), Rep(Space, 0, 0, TRUE, TRUE), Lit(<<"m","g">>), Close(1)>>

\* _extract_dose
ExtractDose(description) ==
    LET dose_match == Search(DosePattern, description, FALSE)
    IN  IF Contains(description, <<"m","g">>) /\ dose_match.ok
        THEN Group1(description, dose_match)
        ELSE <<"U","n","k","n","o","w","n">>

\* frequency_terms of _extract_frequency, in the order of the dict
frequency_terms ==
    <<[freq |-> <<"o","n","c","e"," ","d","a","i","l","y">>, terms |-> <<<<"o","n","c","e"," ","d","a","i","l","y">>, <<"d","a","i","l","y">>, <<"q","d">>>>],
      [freq |-> <<"t","w","i","c","e"," ","d","a","i","l","y">>, terms |-> <<<<"t","w","i","c","e"," ","d","a","i","l","y">>, <<"b","i","d">>, <<"b",".","i",".","d">>>>],
      [freq |-> <<"t","h","r","e","e"," ","t","i","m","e","s"," ","d","a","i","l","y">>, terms |-> <<<<"t","h","r","e","e"," ","t","i","m","e","s"," ","d","a","i","l","y">>, <<"t","i","d">>, <<"t",".","i",".","d">>>>],
      [freq |-> <<"w","e","e","k","l","y">>, terms |-> <<<<"w","e","e","k","l","y">>, <<"o","n","c","e"," ","a"," ","w","e","e","k">>>>],
      [freq |-> <<"t","w","i","c","e"," ","w","e","e","k","l","y">>, terms |-> <<<<"t","w","i","c","e"," ","w","e","e","k","l","y">>, <<"b","i","w","e","e","k","l","y">>>>],
      [freq |-> <<"m","o","n","t","h","l","y">>, terms |-> <<<<"m","o","n","t","h","l","y">>, <<"o","n","c","e"," ","a"," ","m","o","n","t","h">>>>]>>

\* _extract_frequency
ExtractFrequency(description) ==
    LET description_lower == Lower(description)
        hits == {i \in 1..Len(frequency_terms) : ContainsAny(description_lower, frequency_terms[i].terms)}
    IN  IF hits = {} THEN <<"U","n","k","n","o","w","n">>
        ELSE frequency_terms[CHOOSE i \in hits : \A j \in hits : i <= j].freq

\* formulations of _extract_formulation
formulations ==
    <<<<"t","a","b","l","e","t">>, <<"c","a","p","s","u","l","e">>, <<"s","o","l","u","t","i","o","n">>, <<"s","u","s","p","e","n","s","i","o","n">>, <<"i","n","j","e","c","t","i","o","n">>,
      <<"i","n","f","u","s","i","o","n">>, <<"i","n","h","a","l","a","t","i","o","n">>, <<"i","n","h","a","l","e","d">>, <<"o","r","a","l">>, <<"i","n","t","r","a","v","e","n","o","u","s">>,
      <<"s","u","b","c","u","t","a","n","e","o","u","s">>, <<"i","n","t","r","a","m","u","s","c","u","l","a","r">>, <<"t","o","p","i","c","a","l">>, <<"p","a","t","c","h">>>>

\* _extract_formulation
ExtractFormulation(description) ==
    LET description_lower == Lower(description)
        hits == {i \in 1..Len(formulations) : Contains(description_lower, formulations[i])}
    IN  IF hits = {} THEN <<"U","n","k","n","o","w","n">>
        ELSE Capitalize(formulations[CHOOSE i \in hits : \A j \in hits : i <= j])

\* int(age_str.split()[0]) if age_str else default, and default after a
\* ValueError or an IndexError
ParseAge(age_str, default) ==
    LET word == FirstWord(age_str)
        parsed == ParseInt(word)
    IN  IF age_str = <<>> \/ word = <<>> \/ ~parsed.ok THEN default ELSE parsed.val

\* the youngest and oldest age where the eligibility module names none
DefaultMinAge == 0
DefaultMaxAge == 100

\* baseline_characteristics of _extract_study_info
baseline_characteristics ==
    <<PyStr(<<"W","H","O"," ","F","u","n","c","t","i","o","n","a","l"," ","C","l","a","s","s">>),
      PyStr(<<"P","V","R"," ","(","P","u","l","m","o","n","a","r","y"," ","V","a","s","c","u","l","a","r"," ","R","e","s","i","s","t","a","n","c","e",")">>),
      PyStr(<<"6","M","W","D"," ","(","6","-","m","i","n","u","t","e"," ","w","a","l","k"," ","d","i","s","t","a","n","c","e",")">>),
      PyStr(<<"N","T","-","p","r","o","B","N","P"," ","l","e","v","e","l","s">>),
      PyStr(<<"R","i","g","h","t"," ","h","e","a","r","t"," ","f","u","n","c","t","i","o","n">>),
      PyStr(<<"P","A","H"," ","e","t","i","o","l","o","g","y">>)>>

\* arm_counts of _extract_study_info: the arms whose type contains
\* 'experimental', and of the others those whose type contains 'placebo'
ArmCounts(arms) ==
    LET arm_type(i) == Lower(Get(arms[i], "type", EmptyStr).v)
        experimental == {i \in 1..Len(arms) : Contains(arm_type(i), <<"e","x","p","e","r","i","m","e","n","t","a","l">>)}
        placebo == {i \in 1..Len(arms) : i \notin experimental /\ Contains(arm_type(i), <<"p","l","a","c","e","b","o">>)}
    IN  PyDict([intervention |-> PyInt(Cardinality(experimental)),
                placebo |-> PyInt(Cardinality(placebo))])

\* _extract_study_info
ExtractStudyInfo(trial_data) ==
    LET protocol == Get(trial_data, "protocolSection", EmptyDict)
        id_module == Get(protocol, "identificationModule", EmptyDict)
        conditions == Get(Get(protocol, "conditionsModule", EmptyDict), "conditions", EmptyList)
        arms_interventions == Get(protocol, "armsInterventionsModule", EmptyDict)
        interventions == Get(arms_interventions, "interventions", EmptyList)
        intervention == interventions.v[1]
        is_drug == /\ Truthy(interventions)
                   /\ Lower(Get(intervention, "type", EmptyStr).v) = <<"d","r","u","g">>
        description == Get(intervention, "description", EmptyStr).v
        arms == Get(arms_interventions, "arms", EmptyList).v
        design_module == Get(protocol, "designModule", EmptyDict)
        phases == Get(design_module, "phases", EmptyList)
        eligibility_module == Get(protocol, "eligibilityModule", EmptyDict)
        min_age == ParseAge(Get(eligibility_module, "minimumAge", PyStr(<<"0"," ","Y","e","a","r","s">>)).v, DefaultMinAge)
        max_age == ParseAge(Get(eligibility_module, "maximumAge", PyStr(<<"1","0","0"," ","Y","e","a","r","s">>)).v, DefaultMaxAge)
        lead_sponsor == Get(Get(protocol, "sponsorCollaboratorsModule", EmptyDict), "leadSponsor", EmptyDict)
        outcomes_module == Get(protocol, "outcomesModule", EmptyDict)
        primary_outcomes == Get(outcomes_module, "primaryOutcomes", EmptyList).v
        secondary_outcomes == Get(outcomes_module, "secondaryOutcomes", EmptyList).v
        measures == primary_outcomes \o secondary_outcomes
    IN  PyDict([
          title |-> Get(id_module, "briefTitle", EmptyStr),
          nct_identifier |-> Get(id_module, "nctId", EmptyStr),
          indication |-> IF Truthy(conditions) THEN conditions.v[1] ELSE PyStr(<<"N","o","t"," ","s","p","e","c","i","f","i","e","d">>),
          intervention |-> IF Truthy(interventions) THEN Get(intervention, "name", EmptyStr) ELSE EmptyStr,
          interventional_drug |-> PyDict([
              name |-> IF is_drug THEN Get(intervention, "name", EmptyStr) ELSE PyStr(<<"U","n","k","n","o","w","n">>),
              dose |-> PyStr(IF is_drug THEN ExtractDose(description) ELSE <<"U","n","k","n","o","w","n">>),
              frequency |-> PyStr(IF is_drug THEN ExtractFrequency(description) ELSE <<"U","n","k","n","o","w","n">>),
              formulation |-> PyStr(IF is_drug THEN ExtractFormulation(description) ELSE <<"U","n","k","n","o","w","n">>)]),
          phase |-> IF Truthy(phases) THEN phases.v[1] ELSE PyStr(<<"U","n","k","n","o","w","n">>),
          sponsor |-> Get(lead_sponsor, "name", EmptyStr),
          study_arms |-> ArmCounts(arms),
          number_of_participants |-> Get(Get(design_module, "enrollmentInfo", EmptyDict), "count", PyInt(0)),
          average_age |-> Normalize((min_age + max_age) * 5, -1),
          age_range |-> PyList(<<PyInt(min_age), PyInt(max_age)>>),
          endpoints |-> PyList([i \in 1..Len(measures) |-> Get(measures[i], "measure", EmptyStr)]),
          baseline_characteristics |-> PyList(baseline_characteristics)])

\* process_trial_data
ProcessTrialData(trial_data) == PyDict([clinical_study |-> ExtractStudyInfo(trial_data)])

-----------------------------------------------------------------------------
(* json.dump and json.load.                                                *)

\* json.dump: the JSON text of a value, as the tree of its tokens.  A number
\* is written as its literal: str(n) of an int, repr(x) of a float; NaN and
\* the infinities are written as NaN, Infinity and -Infinity.
RECURSIVE JsonDump(_)
JsonDump(x) ==
    CASE x.t = "none" -> [j |-> "null"]
      [] x.t = "str" -> [j |-> "string", v |-> x.v]
      [] x.t = "int" -> [j |-> "number", lit |-> IntToStr(x.v)]
      [] x.t \in {"float", "nan", "inf"} -> [j |-> "number", lit |-> FloatRepr(x)]
      [] x.t = "list" -> [j |-> "array", v |-> [i \in 1..Len(x.v) |-> JsonDump(x.v[i])]]
      [] x.t = "dict" -> [j |-> "object", v |-> [k \in DOMAIN x.v |-> JsonDump(x.v[k])]]

\* json.load of a number literal: NaN and the infinities, a float if the
\* literal has a fraction, else an int
JsonNumber(lit) ==
    IF lit = <<"N","a","N">> THEN NaN
    ELSE IF lit = <<"I","n","f","i","n","i","t","y">> THEN Inf
    ELSE IF lit = <<"-","I","n","f","i","n","i","t","y">> THEN NegInf
    ELSE IF Contains(lit, <<".">>) THEN ParseFloat(lit).val
    ELSE PyInt(ParseInt(lit).val)

\* json.load raises json.JSONDecodeError: the text is not JSON
JsonDecodeError(text) == text.j = "malformed"

\* json.load
RECURSIVE JsonLoad(_)
JsonLoad(doc) ==
    CASE doc.j = "null" -> None
      [] doc.j = "string" -> PyStr(doc.v)
      [] doc.j = "number" -> JsonNumber(doc.lit)
      [] doc.j = "array" -> PyList([i \in 1..Len(doc.v) |-> JsonLoad(doc.v[i])])
      [] doc.j = "object" -> PyDict([k \in DOMAIN doc.v |-> JsonLoad(doc.v[k])])

-----------------------------------------------------------------------------
(* TrialProcessor.process_and_save_trial and EndpointProcessor.load_all_trials *)

\* processed_data of process_and_save_trial
ProcessedData(trial_data, sec_filings, publications) ==
    LET pubs == IF Truthy(publications) THEN publications ELSE NoPublications
    IN  PyDict(ProcessTrialData(trial_data).v @@
               [sec_filings |-> IF Truthy(sec_filings) THEN sec_filings ELSE EmptyDict,
                publications |-> pubs,
                endpoints |-> PyList(ExtractRealEndpoints(trial_data, pubs)),
                baseline_measures |-> PyList(ExtractRealBaselineMeasures(trial_data, pubs))])

\* _extract_study_info raises TypeError: _extract_dose evaluates
\* "mg" in description for the description of a drug that is null
ExtractStudyInfoRaises(trial_data) ==
    LET protocol == Get(trial_data, "protocolSection", EmptyDict)
        interventions == Get(Get(protocol, "armsInterventionsModule", EmptyDict),
                             "interventions", EmptyList)
    IN  /\ Truthy(interventions)
        /\ Lower(Get(interventions.v[1], "type", EmptyStr).v) = <<"d","r","u","g">>
        /\ Get(interventions.v[1], "description", EmptyStr).t # "str"

\* process_and_save_trial raises before it writes
ProcessRaises(trial_data, publications) ==
    \/ ExtractStudyInfoRaises(trial_data)
    \/ ExtractRealEndpointsRaises(trial_data, publications)
    \/ ExtractRealBaselineMeasuresRaises(trial_data, publications)

\* f"{nct_id}.json"
JsonFileName(processed_data) ==
    Format(processed_data.v.clinical_study.v.nct_identifier) \o <<".","j","s","o","n">>

\* f.endswith('.json') and f.startswith('NCT')
IsTrialFile(f) == EndsWith(f, <<".","j","s","o","n">>) /\ StartsWith(f, <<"N","C","T">>)

\* trial_data.get("endpoints") or trial_data.get("baseline_measures")
HasRealData(trial_data) ==
    Truthy(Get(trial_data, "endpoints", None)) \/ Truthy(Get(trial_data, "baseline_measures", None))

\* load_all_trials over a directory: file name -> the record json.load returned,
\* for the files the listing keeps, json.load can parse (json.JSONDecodeError
\* is caught for each file) and the records that have data
LoadAllTrials(dir) ==
    [f \in {g \in DOMAIN dir : /\ IsTrialFile(g)
                               /\ ~JsonDecodeError(dir[g])
                               /\ HasRealData(JsonLoad(dir[g]))} |-> JsonLoad(dir[f])]

\* process_and_save_trial calls in one behaviour
MaxRuns == 1

-----------------------------------------------------------------------------
(* The pipeline as a state machine.                                        *)

\* what process_and_save_trial leaves when an exception ends it
Raised == [t |-> "exception"]

NoFiles == <<>>

\* no call has been made
PipelineIdle ==
    /\ files = NoFiles
    /\ files_before = None
    /\ args = None
    /\ processed = None
    /\ saved_as = None
    /\ reloaded = None
    /\ runs = 0

DedupIdle == dedup_fn = None /\ dedup_in = None /\ dedup_out = None /\ dedup_again = None

NameIdle == name_in = None /\ name_out = None

BatchIdle == raw_dir = None /\ batch = None

FetchIdle == fetched = None

PubsIdle == pubs_in = None /\ pubs_out = None /\ baseline_out = None

GroupsIdle == groups_fn = None /\ groups_in = None /\ groups_out = None

StoreIdle == session = None /\ database = None /\ loaded = None /\ session_before = None

ApiIdle ==
    /\ json_trials = None
    /\ json_trial_details = None
    /\ request = None
    /\ response = None

Init == PipelineIdle /\ DedupIdle /\ NameIdle /\ PubsIdle /\ GroupsIdle /\ StoreIdle /\ ApiIdle /\ BatchIdle /\ FetchIdle

\* process_and_save_trial(trial_data, None, publications) up to the write:
\* the exception, or processed_data with its path and its JSON text
Processing(trial_data, publications) ==
    IF ProcessRaises(trial_data, publications)
    THEN [processed_data |-> Raised]
    ELSE WithValue(ProcessedData(trial_data, None, publications),
                   LAMBDA processed_data :
                       [processed_data |-> processed_data,
                        json_path |-> JsonFileName(processed_data),
                        text |-> JsonDump(processed_data)])

\* Processing of every input of the model, computed once (the method is a
\* function of its arguments)
Processings ==
    [input \in RawTrials \X PublicationChoices |->
        Processing(input[1], input[2])] @@ <<>>

\* a write that leaves no other file in the directory
WriteFileAlone(dir, json_path, text) == Item(json_path, text)

\* a file opened for writing only if there is none of its name
WriteFileIfNew(dir, json_path, text) == dir @@ Item(json_path, text)

\* with open(json_path, "w") as f: json.dump(processed_data, f, indent=2)
WriteFile(dir, json_path, text) == Item(json_path, text) @@ dir

\* process_and_save_trial(trial_data, None, publications): the file
\* <nct_id>.json is created or overwritten with the JSON text of
\* processed_data; nothing is written if an extractor raises
SaveTrial(trial_data, publications) ==
    \E done \in {Processings[<<trial_data, publications>>]} :
        /\ runs' = runs + 1
        /\ reloaded' = None
        /\ args' = [trial_data |-> trial_data, publications |-> publications]
        /\ processed' = done.processed_data
        /\ IF done.processed_data = Raised
           THEN /\ saved_as' = None
                /\ files' = files
           ELSE /\ saved_as' = PyStr(done.json_path)
                /\ files' = WriteFile(files, done.json_path, done.text)
        /\ UNCHANGED <<dedup_vars, name_vars, pubs_vars, groups_vars, store_vars, api_vars, batch_vars, fetch_vars>>

\* a run of process_and_save_trial
ProcessAndSaveTrial(trial_data, publications) ==
    SaveTrial(trial_data, publications) /\ UNCHANGED files_before

\* a run of process_and_save_trial, the directory it found remembered in
\* files_before
ProcessAndSaveTrialAgain(trial_data, publications) ==
    SaveTrial(trial_data, publications) /\ files_before' = files

\* EndpointProcessor.load_all_trials() over json_dir
LoadAll ==
    /\ files # NoFiles
    /\ reloaded = None
    /\ reloaded' = LoadAllTrials(files)
    /\ UNCHANGED <<files, files_before, args, processed, saved_as, runs, dedup_vars, name_vars, pubs_vars, groups_vars, store_vars, api_vars, batch_vars, fetch_vars>>

Next ==
    \/ \E trial_data \in RawTrials, publications \in PublicationChoices :
          runs < MaxRuns /\ ProcessAndSaveTrial(trial_data, publications)
    \/ LoadAll

Spec == Init /\ [][Next]_vars


-----------------------------------------------------------------------------
(* The pipeline run again and again over a few documents.                  *)

\* process_and_save_trial calls in one behaviour of the reruns
MaxReruns == 2

\* documents of two registry identifiers, with and without an outcome section
RerunTrials ==
    {PyDict(Item("protocolSection", PyDict(id)) @@
            (IF o = <<>> THEN <<>> ELSE Item("resultsSection", PyDict(o)))) :
        id \in IdChoices \ {<<>>},
        o \in {<<>>, Item("outcomesMeasures", OutcomeMeasures(PyStr(<<"2","2",".","0">>), PyStr(<<"-","8",".","0">>), <<>>))}}

RerunNext ==
    \E trial_data \in RerunTrials, publications \in PublicationChoices :
        runs < MaxReruns /\ ProcessAndSaveTrialAgain(trial_data, publications)

SpecRerun == Init /\ [][RerunNext]_vars
-----------------------------------------------------------------------------
(* EndpointProcessor.normalize_endpoint_name                               *)

\* the name compared with the aliases, not searched for them
AnyAliasIs(name_lower, aliases) == \E a \in 1..Len(aliases) : name_lower = aliases[a]

\* any(alias in name_lower for alias in aliases)
AnyAliasIn(name_lower, aliases) == \E a \in 1..Len(aliases) : Contains(name_lower, aliases[a])

\* normalize_endpoint_name
NormalizeEndpointName(name) ==
    LET name_lower == Lower(name)
        matching == {c \in 1..Len(endpoint_aliases) :
                       AnyAliasIn(name_lower, endpoint_aliases[c].aliases)}
    IN  IF matching # {}
        THEN Upper(endpoint_aliases[CHOOSE c \in matching : \A d \in matching : c <= d].standard_name)
        ELSE Strip(CollapseWhitespace(name))

-----------------------------------------------------------------------------
(* The deduplication methods, called on lists of candidates.               *)

\* the longest list of candidates
MaxCandidates == 3

Candidate(name, arm, average_value, statistical_significance) ==
    PyDict([name |-> PyStr(name), arm |-> PyStr(arm), average_value |-> average_value,
            upper_end |-> None, statistical_significance |-> statistical_significance])

\* candidates of three (name, arm) pairs; of the same pair, one with no
\* value and two of equal completeness that differ
Candidates ==
    {Candidate(key[1], key[2], fields[1], fields[2]) :
        key \in {<<<<"P","V","R">>, <<"i","n","t","e","r","v","e","n","t","i","o","n">>>>, <<<<"P","V","R">>, <<"p","l","a","c","e","b","o">>>>,
                 <<<<"6","M","W","D">>, <<"i","n","t","e","r","v","e","n","t","i","o","n">>>>},
        fields \in {<<None, None>>, <<PyFloat(368, -1), None>>, <<None, PyStr(<<"p","=","0",".","0","0","1">>)>>}}

RECURSIVE ListsUpTo(_, _)
ListsUpTo(S, n) ==
    IF n = 0 THEN {<<>>}
    ELSE LET shorter == ListsUpTo(S, n - 1)
         IN  shorter \cup {Append(l, x) : l \in {m \in shorter : Len(m) = n - 1}, x \in S}

CandidateLists == ListsUpTo(Candidates, MaxCandidates)

\* the method dedup_fn names
Deduplicate(fn, data) ==
    IF fn = "endpoints" THEN DeduplicateEndpoints(data) ELSE DeduplicateBaselineMeasures(data)

DedupInit ==
    /\ dedup_fn \in {"endpoints", "baseline_measures"}
    /\ dedup_in \in {PyList(l) : l \in CandidateLists}
    /\ dedup_out = None
    /\ dedup_again = None
    /\ PipelineIdle /\ NameIdle /\ PubsIdle /\ GroupsIdle /\ StoreIdle /\ ApiIdle /\ BatchIdle /\ FetchIdle

\* self._deduplicate_endpoints(endpoint_data)
DeduplicateEndpointsCall ==
    /\ dedup_fn = "endpoints" /\ dedup_out = None
    /\ dedup_out' = PyList(DeduplicateEndpoints(dedup_in.v))
    /\ UNCHANGED <<dedup_fn, dedup_in, dedup_again, pipeline_vars, name_vars, pubs_vars, groups_vars, store_vars, api_vars, batch_vars, fetch_vars>>

\* self._deduplicate_baseline_measures(baseline_data)
DeduplicateBaselineMeasuresCall ==
    /\ dedup_fn = "baseline_measures" /\ dedup_out = None
    /\ dedup_out' = PyList(DeduplicateBaselineMeasures(dedup_in.v))
    /\ UNCHANGED <<dedup_fn, dedup_in, dedup_again, pipeline_vars, name_vars, pubs_vars, groups_vars, store_vars, api_vars, batch_vars, fetch_vars>>

\* the same method, called on what it returned
DeduplicateAgain ==
    /\ dedup_out # None /\ dedup_again = None
    /\ dedup_again' = PyList(Deduplicate(dedup_fn, dedup_out.v))
    /\ UNCHANGED <<dedup_fn, dedup_in, dedup_out, pipeline_vars, name_vars, pubs_vars, groups_vars, store_vars, api_vars, batch_vars, fetch_vars>>

DedupNext == DeduplicateEndpointsCall \/ DeduplicateBaselineMeasuresCall \/ DeduplicateAgain

SpecDedup == DedupInit /\ [][DedupNext]_vars

-----------------------------------------------------------------------------
(* normalize_endpoint_name, called on names.                               *)

\* the most pieces a name is made of
MaxPieces == 3

\* pieces of names: aliases of three categories in either case, the two
\* words of an alias of a fourth, letters that are no alias, and whitespace
NamePieces ==
    {<<"P","V","R">>, <<"6","m","w","d">>, <<"C","i">>, <<"c","o">>, <<"w","h","o">>, <<"f","c">>, <<"x">>, <<" ">>, <<"\t", " ">>}

Names == {ConcatAll(l) : l \in ListsUpTo(NamePieces, MaxPieces) \ {<<>>}}

NameInit ==
    /\ name_in \in {PyStr(n) : n \in Names}
    /\ name_out = None
    /\ PipelineIdle /\ DedupIdle /\ PubsIdle /\ GroupsIdle /\ StoreIdle /\ ApiIdle /\ BatchIdle /\ FetchIdle

\* self.normalize_endpoint_name(name)
NormalizeEndpointNameCall ==
    /\ name_out = None
    /\ name_out' = PyStr(NormalizeEndpointName(name_in.v))
    /\ UNCHANGED <<name_in, pipeline_vars, dedup_vars, pubs_vars, groups_vars, store_vars, api_vars, batch_vars, fetch_vars>>

NameNext == NormalizeEndpointNameCall

SpecNormalize == NameInit /\ [][NameNext]_vars

-----------------------------------------------------------------------------
(* extract_publication_endpoints, called on publications.                  *)

TextLeads == {<<>>, <<".",".",".">>}

TextFindings ==
    {<<"P","V","R"," ","d","e","c","r","e","a","s","e","d"," ","b","y"," ","3","6",".","8","%"," ","(","p","<","0",".","0","0","0","1",")">>,
     <<"6","M","W","D"," ","i","m","p","r","o","v","e","d"," ","b","y"," ","2","2"," ","m"," ","(","p","=","0",".","0","0","3",")">>,
     <<"m","o","r","t","a","l","i","t","y"," ","d","e","c","r","e","a","s","e","d"," ","b","y"," ","1","2",".","5","%">>,
     <<"P","V","R"," ","w","a","s"," ","8","5","4">>}

TextTails ==
    {<<>>,
     <<" ","i","n"," ","t","h","e"," ","t","r","e","a","t","m","e","n","t"," ","g","r","o","u","p"," ","v","s"," ","b","a","s","e","l","i","n","e"," ","8","5","4",".",".",".">>,
     <<" ","a","t"," ","w","e","e","k"," ","1","6"," ","w","i","t","h"," ","t","r","e","a","t","m","e","n","t">>,
     <<" ","i","n"," ","t","h","e"," ","p","l","a","c","e","b","o"," ","g","r","o","u","p"," ","a","t"," ","w","e","e","k"," ","1","2">>}

\* more characters than the context window holds on one side
Padding == [i \in 1..(ContextWindow + 10) |-> "."]

\* texts in which the number of a finding also occurs more than a window
\* earlier, in a sentence of its own
RepeatedNumberTexts ==
    {<<"T","h","e"," ","2","2"," ","p","a","t","i","e","n","t","s"," ","o","f"," ","t","h","e"," ","t","r","e","a","t","m","e","n","t"," ","g","r","o","u","p">> \o Padding \o <<"6","M","W","D"," ","i","m","p","r","o","v","e","d"," ","b","y"," ","2","2"," ","m"," ","v","e","r","s","u","s"," ","b","a","s","e","l","i","n","e">>,
     <<"A","t"," ","b","a","s","e","l","i","n","e"," ","t","h","e"," ","m","e","a","n"," ","w","a","s"," ","2","2"," ","u","n","i","t","s">> \o Padding \o <<"6","M","W","D"," ","i","m","p","r","o","v","e","d"," ","b","y"," ","2","2"," ","m"," ","(","p","=","0",".","0","0","3",")"," ","a","t"," ","w","e","e","k"," ","1","6">>,
     <<"P","l","a","c","e","b","o",":"," ","2","2"," ","p","a","t","i","e","n","t","s">> \o Padding \o <<"6","M","W","D"," ","i","m","p","r","o","v","e","d"," ","b","y"," ","2","2"," ","m"," ","(","p","=","0",".","0","0","3",")"," ","a","t"," ","w","e","e","k"," ","1","6"," ","w","i","t","h"," ","t","r","e","a","t","m","e","n","t">>}

\* texts that report a value measured before treatment
BaselineTexts ==
    {<<"B","a","s","e","l","i","n","e"," ","P","V","R"," ","w","a","s"," ","8","5","4"," ","d","y","n"," ","i","n"," ","t","h","e"," ","t","r","e","a","t","m","e","n","t"," ","g","r","o","u","p">>,
     <<"I","n","i","t","i","a","l"," ","6","M","W","D"," ","3","5","0"," ","m"," ","i","n"," ","t","h","e"," ","p","l","a","c","e","b","o"," ","g","r","o","u","p">>,
     <<"D","e","m","o","g","r","a","p","h","i","c","s",":"," ","m","e","a","n"," ","P","V","R"," ","8","5","4"," ","d","y","n",","," ","m","e","a","n"," ","6","M","W","D"," ","3","5","0"," ","m">>,
     <<"M","e","a","n"," ","P","V","R"," ","8","5","4"," ","d","y","n"," ","a","t"," ","w","e","e","k"," ","1","6">>}

Texts ==
    {lead \o finding \o tail : lead \in TextLeads, finding \in TextFindings, tail \in TextTails}
    \cup RepeatedNumberTexts \cup BaselineTexts

\* publications with one text: the full text or the snippet of a scientific
\* publication, or the text sample of a company presentation
PublicationsOf(text) ==
    {PyDict([scientific_publications |-> PyList(<<Publication(<<"R","e","s","u","l","t","s">>, PyStr(text))>>),
             company_presentations |-> EmptyList]),
     PyDict([scientific_publications |->
                 PyList(<<PyDict([title |-> PyStr(<<"R","e","s","u","l","t","s">>), snippet |-> PyStr(text)])>>),
             company_presentations |-> EmptyList]),
     PyDict([scientific_publications |-> EmptyList,
             company_presentations |-> PyList(<<PyDict([text_sample |-> PyStr(text)])>>)])}

PubsInit ==
    /\ pubs_in \in UNION {PublicationsOf(text) : text \in Texts}
    /\ pubs_out = None
    /\ baseline_out = None
    /\ PipelineIdle /\ DedupIdle /\ NameIdle /\ GroupsIdle /\ StoreIdle /\ ApiIdle /\ BatchIdle /\ FetchIdle

\* self.extract_publication_endpoints(publications)
ExtractPublicationEndpointsCall ==
    /\ pubs_out = None
    /\ pubs_out' = PyList(ExtractPublicationEndpoints(pubs_in))
    /\ UNCHANGED <<pubs_in, baseline_out, pipeline_vars, dedup_vars, name_vars, groups_vars, store_vars, api_vars, batch_vars, fetch_vars>>

\* self.extract_publication_baseline_measures(publications)
ExtractPublicationBaselineMeasuresCall ==
    /\ baseline_out = None
    /\ baseline_out' = PyList(ExtractPublicationBaselineMeasures(pubs_in))
    /\ UNCHANGED <<pubs_in, pubs_out, pipeline_vars, dedup_vars, name_vars, groups_vars, store_vars, api_vars, batch_vars, fetch_vars>>

PubsNext == ExtractPublicationEndpointsCall \/ ExtractPublicationBaselineMeasuresCall

SpecText == PubsInit /\ [][PubsNext]_vars

-----------------------------------------------------------------------------
(* The structured tier, called on results sections of several groups.      *)

\* the most groups of a results section
MaxGroups == 2

GroupTitles ==
    {<<"E","x","p","e","r","i","m","e","n","t","a","l"," ","A","r","m">>, <<"A","c","t","i","v","e"," ","T","r","e","a","t","m","e","n","t">>, <<"P","l","a","c","e","b","o">>, <<"M","a","t","c","h","i","n","g"," ","p","l","a","c","e","b","o">>, <<"O","b","s","e","r","v","a","t","i","o","n">>}

\* the id of the i-th group, and the value measured for it
GroupId(i) == <<"O", "G">> \o ZeroPad(NatToStr(i - 1), 3)

GroupValue(i) == PyStr(NatToStr(100 + i))

\* a results section of one outcome and one baseline measure, with one
\* measurement for each group of titles
ResultsOf(titles) ==
    LET groups == PyList([i \in 1..Len(titles) |-> Group(GroupId(i), titles[i])])
        measurements == PyList([i \in 1..Len(titles) |-> Measured(GroupId(i), GroupValue(i))])
    IN  PyDict(Item("resultsSection", PyDict([
            outcomesMeasures |-> PyList(<<PyDict([
                title |-> PyStr(<<"6","-","M","i","n","u","t","e"," ","W","a","l","k"," ","D","i","s","t","a","n","c","e">>),
                outcomeGroupList |-> groups,
                outcomeDenomList |-> PyList(<<PyDict([categoriesList |-> PyList(<<PyDict([
                    measurementList |-> measurements])>>)])>>)])>>),
            baselineData |-> PyDict([
                baselineGroupList |-> groups,
                baselineMeasureList |-> PyList(<<PyDict([
                    title |-> PyStr(<<"6","M","W","D">>),
                    measureParamList |-> PyList(<<PyDict([paramList |-> measurements])>>)])>>)])])))

GroupLists == ListsUpTo(GroupTitles, MaxGroups) \ {<<>>}

GroupsInit ==
    /\ groups_fn \in {"endpoints", "baseline_measures"}
    /\ groups_in \in {ResultsOf(titles) : titles \in GroupLists}
    /\ groups_out = None
    /\ PipelineIdle /\ DedupIdle /\ NameIdle /\ PubsIdle /\ StoreIdle /\ ApiIdle /\ BatchIdle /\ FetchIdle

\* self.extract_real_endpoints(trial_data, publications), no publications
ExtractRealEndpointsCall ==
    /\ groups_fn = "endpoints" /\ groups_out = None
    /\ groups_out' = PyList(ExtractRealEndpoints(groups_in, NoPublications))
    /\ UNCHANGED <<groups_fn, groups_in, pipeline_vars, dedup_vars, name_vars, pubs_vars, store_vars, api_vars, batch_vars, fetch_vars>>

\* self.extract_real_baseline_measures(trial_data, publications), no publications
ExtractRealBaselineMeasuresCall ==
    /\ groups_fn = "baseline_measures" /\ groups_out = None
    /\ groups_out' = PyList(ExtractRealBaselineMeasures(groups_in, NoPublications))
    /\ UNCHANGED <<groups_fn, groups_in, pipeline_vars, dedup_vars, name_vars, pubs_vars, store_vars, api_vars, batch_vars, fetch_vars>>

GroupsNext == ExtractRealEndpointsCall \/ ExtractRealBaselineMeasuresCall

SpecGroups == GroupsInit /\ [][GroupsNext]_vars
-----------------------------------------------------------------------------
(* The loader of the relational store: load_data.py over models.py.        *)

\* the tables after Base.metadata.drop_all and create_all
NoRows ==
    [clinical_study |-> <<>>, endpoints |-> <<>>, baseline_measures |-> <<>>,
     sec_filings |-> <<>>, publications |-> <<>>]

\* session.query(ClinicalStudy).filter_by(nct_identifier=...) finds no row
ExistingStudyNone(tables, nct_identifier) == {}

\* session.query(ClinicalStudy).filter_by(nct_identifier=...): the rows of
\* that identifier (of no identifier, for None)
ExistingStudy(tables, nct_identifier) ==
    {i \in 1..Len(tables.clinical_study) : tables.clinical_study[i].nct_identifier = nct_identifier}

\* ClinicalStudy(...) of clinical_study_data, with the id the flush gives it
StudyRow(id, clinical_study_data) ==
    LET interventional_drug == Get(clinical_study_data, "interventional_drug", EmptyDict)
        study_arms == Get(clinical_study_data, "study_arms", EmptyDict)
        age_range == Get(clinical_study_data, "age_range", None)
    IN  [id |-> id,
         title |-> Get(clinical_study_data, "title", None),
         nct_identifier |-> Get(clinical_study_data, "nct_identifier", None),
         indication |-> Get(clinical_study_data, "indication", None),
         intervention |-> Get(clinical_study_data, "intervention", None),
         interventional_drug_name |-> Get(interventional_drug, "name", None),
         interventional_drug_dose |-> Get(interventional_drug, "dose", None),
         interventional_drug_frequency |-> Get(interventional_drug, "frequency", None),
         interventional_drug_formulation |-> Get(interventional_drug, "formulation", None),
         intervention_arms |-> Get(study_arms, "intervention", PyInt(0)),
         placebo_arms |-> Get(study_arms, "placebo", PyInt(0)),
         number_of_participants |-> Get(clinical_study_data, "number_of_participants", PyInt(0)),
         average_age |-> Get(clinical_study_data, "average_age", PyInt(0)),
         min_age |-> IF age_range.t = "list" THEN age_range.v[1] ELSE PyInt(0),
         max_age |-> IF age_range.t = "list" THEN age_range.v[2] ELSE PyInt(0),
         phase |-> Get(clinical_study_data, "phase", None),
         sponsor |-> Get(clinical_study_data, "sponsor", None)]

\* Endpoint(...) of every entry of data["endpoints"]
EndpointRows(id, data) ==
    LET endpoints_data == Get(data, "endpoints", EmptyList).v
    IN  [i \in 1..Len(endpoints_data) |->
            [clinical_study_id |-> id,
             name |-> Get(endpoints_data[i], "name", None),
             description |-> Get(endpoints_data[i], "description", None),
             timepoint |-> Get(endpoints_data[i], "timepoint", None),
             arm |-> Get(endpoints_data[i], "arm", None),
             average_value |-> Get(endpoints_data[i], "average_value", None),
             upper_end |-> Get(endpoints_data[i], "upper_end", None),
             lower_end |-> Get(endpoints_data[i], "lower_end", None),
             statistical_significance |-> Get(endpoints_data[i], "statistical_significance", None)]]

\* BaselineMeasure(...) of every entry of data["baseline_measures"]
BaselineMeasureRows(id, data) ==
    LET baseline_data == Get(data, "baseline_measures", EmptyList).v
    IN  [i \in 1..Len(baseline_data) |->
            [clinical_study_id |-> id,
             name |-> Get(baseline_data[i], "name", None),
             description |-> Get(baseline_data[i], "description", None),
             arm |-> Get(baseline_data[i], "arm", None),
             average_value |-> Get(baseline_data[i], "average_value", None),
             upper_end |-> Get(baseline_data[i], "upper_end", None),
             lower_end |-> Get(baseline_data[i], "lower_end", None)]]

\* SECFiling(...) of every filing of the form type of data["sec_filings"]
\* (the records of the model have filings of one form type at most)
SECFilingRows(id, data) ==
    LET sec_filings_data == Get(data, "sec_filings", EmptyDict).v
    IN  IF DOMAIN sec_filings_data = {} THEN <<>>
        ELSE LET form_type == CHOOSE k \in DOMAIN sec_filings_data : TRUE
                 filings == sec_filings_data[form_type].v
             IN  [i \in 1..Len(filings) |->
                     [clinical_study_id |-> id,
                      cik |-> Get(filings[i], "cik", None),
                      accession_number |-> Get(filings[i], "accession_number", None),
                      filing_date |-> Get(filings[i], "filing_date", None),
                      form_type |-> Get(filings[i], "form", PyStr(form_type)),
                      total_mentions |-> Get(filings[i], "total_mentions", PyInt(0)),
                      name_mentions |-> Get(filings[i], "name_mentions", PyInt(0)),
                      nct_mentions |-> Get(filings[i], "nct_mentions", PyInt(0)),
                      contexts |-> Get(filings[i], "contexts", EmptyList)]]

\* Publication(...) of every scientific publication, then of every company
\* presentation, of data["publications"]
PublicationRows(id, data) ==
    LET publications_data == Get(data, "publications", EmptyDict)
        scientific == Get(publications_data, "scientific_publications", EmptyList).v
        presentations == Get(publications_data, "company_presentations", EmptyList).v
    IN  [i \in 1..Len(scientific) |->
            [clinical_study_id |-> id,
             title |-> Get(scientific[i], "title", None),
             link |-> Get(scientific[i], "link", None),
             snippet |-> Get(scientific[i], "snippet", None),
             source |-> PyStr(<<"s","c","i","e","n","t","i","f","i","c","_","p","u","b","l","i","c","a","t","i","o","n">>),
             authors |-> Get(scientific[i], "authors", None),
             journal |-> Get(scientific[i], "journal", None),
             local_path |-> None,
             text_sample |-> None]]
        \o
        [i \in 1..Len(presentations) |->
            [clinical_study_id |-> id,
             title |-> Get(presentations[i], "title", None),
             link |-> Get(presentations[i], "url", Get(presentations[i], "link", None)),
             snippet |-> Get(presentations[i], "snippet", None),
             source |-> PyStr(<<"c","o","m","p","a","n","y","_","p","r","e","s","e","n","t","a","t","i","o","n">>),
             authors |-> None,
             journal |-> None,
             local_path |-> Get(presentations[i], "local_path", None),
             text_sample |-> Get(presentations[i], "text_sample", None)]]

\* process_clinical_study(data, session): the tables the session sees after
\* the call: as before if a study of the identifier exists, else with the
\* study and the rows that refer to it added
ProcessClinicalStudy(data, tables) ==
    LET clinical_study_data == Get(data, "clinical_study", EmptyDict)
        id == Len(tables.clinical_study) + 1
    IN  IF ExistingStudy(tables, Get(clinical_study_data, "nct_identifier", None)) # {}
        THEN tables
        ELSE [clinical_study |-> Append(tables.clinical_study, StudyRow(id, clinical_study_data)),
              endpoints |-> tables.endpoints \o EndpointRows(id, data),
              baseline_measures |-> tables.baseline_measures \o BaselineMeasureRows(id, data),
              sec_filings |-> tables.sec_filings \o SECFilingRows(id, data),
              publications |-> tables.publications \o PublicationRows(id, data)]

\* process_clinical_study calls in one behaviour
MaxLoads == 3

\* a raw document of the known identifier
KnownTrial ==
    PyDict(Item("protocolSection", PyDict(Item("identificationModule",
        PyDict([nctId |-> PyStr(KnownId), briefTitle |-> PyStr(<<"S","E","R","A","P","H","I","N">>)])))))

\* a raw document of the other identifier
UnknownTrial ==
    PyDict(Item("protocolSection", PyDict(Item("identificationModule",
        PyDict([nctId |-> PyStr(UnknownId)])))))

ResultsPublications ==
    PyDict([scientific_publications |->
                PyList(<<Publication(<<"R","e","s","u","l","t","s">>,
                                     PyStr(<<"P","V","R"," ","d","e","c","r","e","a","s","e","d"," ","b","y"," ","3","6",".","8","%"," ","(","p","<","0",".","0","0","0","1",")"," ","a","t"," ","w","e","e","k"," ","1","6"," ","w","i","t","h"," ","t","r","e","a","t","m","e","n","t">>))>>),
            company_presentations |-> EmptyList])

\* json.load of the file process_and_save_trial writes
SavedRecord(trial_data, publications) == JsonLoad(Processing(trial_data, publications).text)

\* a record with no registry identifier, with a filing and a presentation
UnidentifiedRecord ==
    PyDict([clinical_study |-> PyDict([title |-> PyStr(<<"U","n","t","i","t","l","e","d">>)]),
            sec_filings |-> PyDict(Item("10-K", PyList(<<PyDict([
                cik |-> PyStr(<<"0","0","0","1">>), total_mentions |-> PyInt(3)])>>))),
            publications |-> PyDict([company_presentations |-> PyList(<<PyDict([
                title |-> PyStr(<<"I","n","v","e","s","t","o","r"," ","D","a","y">>), url |-> PyStr(<<"h","t","t","p","s",":","/","/","e","x","a","m","p","l","e",".","o","r","g","/","d","e","c","k",".","p","d","f">>),
                text_sample |-> PyStr(<<"P","V","R">>)])>>)])])

\* the records of the JSON files: two of the same identifier that differ,
\* one of another identifier, one of none
LoadRecords ==
    {SavedRecord(KnownTrial, None), SavedRecord(KnownTrial, ResultsPublications),
     SavedRecord(UnknownTrial, None), UnidentifiedRecord}

StoreInit ==
    /\ session = NoRows
    /\ database = NoRows
    /\ loaded = <<>>
    /\ session_before = NoRows
    /\ PipelineIdle /\ DedupIdle /\ NameIdle /\ PubsIdle /\ GroupsIdle /\ ApiIdle /\ BatchIdle /\ FetchIdle

\* process_clinical_study(data, session), for the data of one JSON file
ProcessClinicalStudyCall(data) ==
    /\ Len(loaded) < MaxLoads
    /\ loaded' = Append(loaded, data)
    /\ session_before' = session
    /\ session' = ProcessClinicalStudy(data, session)
    /\ UNCHANGED <<database, pipeline_vars, dedup_vars, name_vars, pubs_vars, groups_vars, api_vars, batch_vars, fetch_vars>>

\* session.commit()
SessionCommit ==
    /\ database # session
    /\ database' = session
    /\ UNCHANGED <<session, loaded, session_before, pipeline_vars, dedup_vars, name_vars, pubs_vars,
                   groups_vars, api_vars, batch_vars, fetch_vars>>

StoreNext ==
    \/ \E data \in LoadRecords : ProcessClinicalStudyCall(data)
    \/ SessionCommit

SpecStore == StoreInit /\ [][StoreNext]_vars
-----------------------------------------------------------------------------
(* The query API: src/src/api/main.py.                                     *)

\* trial_details[nct_id] = data, for a dict kept as the sequence of its
\* items in insertion order
DictPut(items, key, value) ==
    IF \E i \in 1..Len(items) : items[i].key = key
    THEN [i \in 1..Len(items) |-> IF items[i].key = key THEN [key |-> key, value |-> value]
                                  ELSE items[i]]
    ELSE Append(items, [key |-> key, value |-> value])

\* nct_id in json_trial_details
DictHas(items, key) == \E i \in 1..Len(items) : items[i].key = key

\* json_trial_details[nct_id]
DictAt(items, key) == items[CHOOSE i \in 1..Len(items) : items[i].key = key].value

\* get_json_data: the loop over json_files, for the files read in the order
\* listing: trials and trial_details after the file listing[i]
RECURSIVE GetJsonDataFrom(_, _, _, _)
GetJsonDataFrom(dir, listing, i, acc) ==
    IF i > Len(listing) THEN acc
    ELSE LET data == JsonLoad(dir[listing[i]])
             study == Get(data, "clinical_study", EmptyDict)
             nct_id == Get(study, "nct_identifier", EmptyStr)
             trial_summary ==
                 PyDict([id |-> PyInt(Len(acc.trials) + 1),
                         title |-> Get(study, "title", EmptyStr),
                         nct_identifier |-> nct_id,
                         indication |-> Get(study, "indication", EmptyStr),
                         intervention |-> Get(study, "intervention", EmptyStr),
                         phase |-> Get(study, "phase", EmptyStr),
                         sponsor |-> Get(study, "sponsor", EmptyStr),
                         number_of_participants |-> Get(study, "number_of_participants", PyInt(0)),
                         average_age |-> Get(study, "average_age", PyInt(0))])
         IN  GetJsonDataFrom(dir, listing, i + 1,
                 IF Truthy(nct_id)
                 THEN [trials |-> Append(acc.trials, trial_summary),
                       trial_details |-> DictPut(acc.trial_details, nct_id.v, data)]
                 ELSE acc)

\* the orders in which os.listdir may list the trial files of a directory
Listings(dir) ==
    LET json_files == {f \in DOMAIN dir : IsTrialFile(f)}
    IN  {listing \in [1..Cardinality(json_files) -> json_files] :
            \A i, j \in 1..Cardinality(json_files) : listing[i] = listing[j] => i = j}

\* get_json_data() for one listing of the directory: "except Exception"
\* around the whole loop returns [], {} if json.load raises on a file
GetJsonData(dir, listing) ==
    IF \E i \in 1..Len(listing) : JsonDecodeError(dir[listing[i]])
    THEN [trials |-> <<>>, trial_details |-> <<>>]
    ELSE GetJsonDataFrom(dir, listing, 1, [trials |-> <<>>, trial_details |-> <<>>])

\* a response: the status and the body
Ok(body) == [status |-> 200, body |-> body]

\* HTTPException(status_code=404, ...)
NotFound == [status |-> 404, body |-> None]

\* HTTPException(status_code=500, ...)
ServerError == [status |-> 500, body |-> None]

\* column ILIKE '%term%': a null column matches nothing
ILike(column, term) == column.t = "str" /\ Contains(Lower(column.v), Lower(term))

\* seq[skip : skip + limit], and query.offset(skip).limit(limit)
Page(seq, skip, limit) == Slice(seq, skip, skip + limit)

\* get_trials, the database queried
GetTrialsOfDatabase(tables, skip, limit, indication, sponsor) ==
    LET trials == Page(SelectSeq(tables.clinical_study,
                           LAMBDA trial :
                               /\ Truthy(indication) => ILike(trial.indication, indication.v)
                               /\ Truthy(sponsor) => ILike(trial.sponsor, sponsor.v)),
                       skip, limit)
    IN  Ok(PyList([i \in 1..Len(trials) |->
            PyDict([id |-> PyInt(trials[i].id),
                    title |-> trials[i].title,
                    nct_identifier |-> trials[i].nct_identifier,
                    indication |-> trials[i].indication,
                    intervention |-> trials[i].intervention,
                    phase |-> trials[i].phase,
                    sponsor |-> trials[i].sponsor,
                    number_of_participants |-> trials[i].number_of_participants,
                    average_age |-> trials[i].average_age])]))

\* get_trials, after an exception of the database: the JSON data
GetTrialsOfJson(trials, skip, limit, indication, sponsor) ==
    Ok(PyList(Page(SelectSeq(trials,
                       LAMBDA t :
                           /\ Truthy(indication) =>
                                  Contains(Lower(Get(t, "indication", EmptyStr).v), Lower(indication.v))
                           /\ Truthy(sponsor) =>
                                  Contains(Lower(Get(t, "sponsor", EmptyStr).v), Lower(sponsor.v))),
                   skip, limit)))

\* the response dict of get_trial_by_nct for the row trial of the database
TrialResponse(tables, trial) ==
    LET endpoints == SelectSeq(tables.endpoints, LAMBDA e : e.clinical_study_id = trial.id)
        baseline_measures == SelectSeq(tables.baseline_measures,
                                       LAMBDA m : m.clinical_study_id = trial.id)
    IN  PyDict([clinical_study |->
                    PyDict([id |-> PyInt(trial.id),
                            title |-> trial.title,
                            nct_identifier |-> trial.nct_identifier,
                            indication |-> trial.indication,
                            intervention |-> trial.intervention,
                            interventional_drug |->
                                PyDict([name |-> trial.interventional_drug_name,
                                        dose |-> trial.interventional_drug_dose,
                                        frequency |-> trial.interventional_drug_frequency,
                                        formulation |-> trial.interventional_drug_formulation]),
                            phase |-> trial.phase,
                            sponsor |-> trial.sponsor,
                            study_arms |-> PyDict([intervention |-> trial.intervention_arms,
                                                   placebo |-> trial.placebo_arms]),
                            number_of_participants |-> trial.number_of_participants,
                            average_age |-> trial.average_age,
                            age_range |-> PyList(<<trial.min_age, trial.max_age>>)]),
                endpoints |->
                    PyList([i \in 1..Len(endpoints) |->
                        PyDict([name |-> endpoints[i].name,
                                description |-> endpoints[i].description,
                                timepoint |-> endpoints[i].timepoint,
                                arm |-> endpoints[i].arm,
                                average_value |-> endpoints[i].average_value,
                                upper_end |-> endpoints[i].upper_end,
                                lower_end |-> endpoints[i].lower_end,
                                statistical_significance |-> endpoints[i].statistical_significance])]),
                baseline_measures |->
                    PyList([i \in 1..Len(baseline_measures) |->
                        PyDict([name |-> baseline_measures[i].name,
                                description |-> baseline_measures[i].description,
                                arm |-> baseline_measures[i].arm,
                                average_value |-> baseline_measures[i].average_value,
                                upper_end |-> baseline_measures[i].upper_end,
                                lower_end |-> baseline_measures[i].lower_end])])])

\* get_trial_by_nct: the JSON record of nct_id, or the not-found exception
TrialOfJson(trial_details, nct_id) ==
    IF DictHas(trial_details, nct_id) THEN Ok(DictAt(trial_details, nct_id)) ELSE NotFound

\* get_trial_by_nct, the database queried
TrialOfDatabase(tables, trial_details, nct_id) ==
    LET found == ExistingStudy(tables, PyStr(nct_id))
    IN  IF found = {}
        THEN TrialOfJson(trial_details, nct_id)
        ELSE Ok(TrialResponse(tables, tables.clinical_study[CHOOSE i \in found : \A j \in found : i <= j]))

\* compare_endpoint: the entries of one JSON record
EndpointsOfRecord(trial_data, endpoint_name, include_placebo) ==
    LET study_info == Get(trial_data, "clinical_study", EmptyDict)
        kept == SelectSeq(Get(trial_data, "endpoints", EmptyList).v,
                          LAMBDA endpoint :
                              /\ Contains(Lower(Get(endpoint, "name", EmptyStr).v), Lower(endpoint_name))
                              /\ ~(~include_placebo /\ Get(endpoint, "arm", None) = PyStr(<<"p","l","a","c","e","b","o">>)))
    IN  [i \in 1..Len(kept) |->
            PyDict([nct_id |-> Get(study_info, "nct_identifier", EmptyStr),
                    study_title |-> Get(study_info, "title", EmptyStr),
                    sponsor |-> Get(study_info, "sponsor", EmptyStr),
                    endpoint_name |-> Get(kept[i], "name", EmptyStr),
                    arm |-> Get(kept[i], "arm", EmptyStr),
                    timepoint |-> Get(kept[i], "timepoint", EmptyStr),
                    value |-> Get(kept[i], "average_value", None),
                    upper_end |-> Get(kept[i], "upper_end", None),
                    lower_end |-> Get(kept[i], "lower_end", None),
                    p_value |-> Get(kept[i], "statistical_significance", EmptyStr)])]

\* compare_endpoint: endpoint_data over json_trial_details.values()
RECURSIVE EndpointData(_, _, _, _)
EndpointData(trial_details, i, endpoint_name, include_placebo) ==
    IF i > Len(trial_details) THEN <<>>
    ELSE EndpointsOfRecord(trial_details[i].value, endpoint_name, include_placebo)
         \o EndpointData(trial_details, i + 1, endpoint_name, include_placebo)

\* compare_endpoint: the JSON data, or the not-found exception
EndpointsOfJson(trial_details, endpoint_name, include_placebo) ==
    LET endpoint_data == EndpointData(trial_details, 1, endpoint_name, include_placebo)
    IN  IF endpoint_data # <<>> THEN Ok(PyList(endpoint_data)) ELSE NotFound

\* compare_endpoint, the database queried (endpoint_name has no wildcard
\* of LIKE)
EndpointsOfDatabase(tables, trial_details, endpoint_name, include_placebo) ==
    LET matched == SelectSeq(tables.endpoints, LAMBDA e : ILike(e.name, endpoint_name))
        endpoints == IF include_placebo THEN matched
                     ELSE SelectSeq(matched, LAMBDA e : e.arm = PyStr(<<"i","n","t","e","r","v","e","n","t","i","o","n">>))
        with_trial == SelectSeq(endpoints,
                          LAMBDA e : \E t \in 1..Len(tables.clinical_study) :
                                         tables.clinical_study[t].id = e.clinical_study_id)
    IN  IF matched = <<>>
        THEN EndpointsOfJson(trial_details, endpoint_name, include_placebo)
        ELSE Ok(PyList([i \in 1..Len(with_trial) |->
                 LET trial == tables.clinical_study[with_trial[i].clinical_study_id]
                 IN  PyDict([nct_id |-> trial.nct_identifier,
                             study_title |-> trial.title,
                             sponsor |-> trial.sponsor,
                             endpoint_name |-> with_trial[i].name,
                             arm |-> with_trial[i].arm,
                             timepoint |-> with_trial[i].timepoint,
                             value |-> with_trial[i].average_value,
                             upper_end |-> with_trial[i].upper_end,
                             lower_end |-> with_trial[i].lower_end,
                             p_value |-> with_trial[i].statistical_significance])]))

\* compare_trials_by_endpoint: comparison_data, from the file listing[i] on
RECURSIVE CompareTrialsByEndpointFrom(_, _, _, _, _)
CompareTrialsByEndpointFrom(dir, listing, i, endpoint_name, include_placebo) ==
    IF i > Len(listing) THEN <<>>
    ELSE LET trial_data == JsonLoad(dir[listing[i]])
             study_info == Get(trial_data, "clinical_study", EmptyDict)
             kept == SelectSeq(Get(trial_data, "endpoints", EmptyList).v,
                               LAMBDA endpoint :
                                   /\ Contains(Lower(Get(endpoint, "name", EmptyStr).v), Lower(endpoint_name))
                                   /\ \/ Get(endpoint, "arm", None) = PyStr(<<"i","n","t","e","r","v","e","n","t","i","o","n">>)
                                      \/ include_placebo)
         IN  [n \in 1..Len(kept) |->
                 PyDict([nct_id |-> Get(study_info, "nct_identifier", EmptyStr),
                         study_title |-> Get(study_info, "title", EmptyStr),
                         sponsor |-> Get(study_info, "sponsor", EmptyStr),
                         endpoint_name |-> Get(kept[n], "name", EmptyStr),
                         arm |-> Get(kept[n], "arm", EmptyStr),
                         timepoint |-> Get(kept[n], "timepoint", EmptyStr),
                         value |-> Get(kept[n], "average_value", None),
                         upper_end |-> Get(kept[n], "upper_end", None),
                         lower_end |-> Get(kept[n], "lower_end", None),
                         p_value |-> Get(kept[n], "statistical_significance", EmptyStr)])]
             \o CompareTrialsByEndpointFrom(dir, listing, i + 1, endpoint_name, include_placebo)

\* TrialProcessor.compare_trials_by_endpoint(endpoint_name, include_placebo):
\* the rows of the data frame returned, which is empty if there is none
CompareTrialsByEndpoint(dir, listing, endpoint_name, include_placebo) ==
    Ok(PyList(CompareTrialsByEndpointFrom(dir, listing, 1, endpoint_name, include_placebo)))

\* the relational store as a request finds it: the connection or its test
\* query fails; the connection works; the connection works and the query
\* of the handler raises
DbStates == {"unreachable", "up", "query fails"}

\* get_db around a handler: the exception of the failed connection or test
\* query is re-raised as HTTPException 500 before the handler runs; an
\* HTTPException of the handler is answered as it is, or, where the
\* framework raises it inside the dependency at its yield, re-raised by
\* the except clauses of get_db as HTTPException 500
GetDb(db, raised_at_yield, handled) ==
    IF db = "unreachable" THEN ServerError
    ELSE IF handled.status # 200 /\ raised_at_yield THEN ServerError
    ELSE handled

\* get_trials(skip, limit, indication, sponsor, db)
GetTrials(db, tables, trials, skip, limit, indication, sponsor) ==
    IF db = "up" THEN GetTrialsOfDatabase(tables, skip, limit, indication, sponsor)
    ELSE GetTrialsOfJson(trials, skip, limit, indication, sponsor)

\* get_trial_by_nct(nct_id, db)
GetTrialByNct(db, tables, trial_details, nct_id) ==
    IF db = "up" THEN TrialOfDatabase(tables, trial_details, nct_id)
    ELSE TrialOfJson(trial_details, nct_id)

\* compare_endpoint(endpoint_name, include_placebo, db)
CompareEndpoint(db, tables, trial_details, endpoint_name, include_placebo) ==
    IF db = "up" THEN EndpointsOfDatabase(tables, trial_details, endpoint_name, include_placebo)
    ELSE EndpointsOfJson(trial_details, endpoint_name, include_placebo)

\* a raw document of the other identifier with a sponsor
SponsoredTrial ==
    PyDict(Item("protocolSection",
        PyDict([identificationModule |-> PyDict([nctId |-> PyStr(UnknownId)]),
                sponsorCollaboratorsModule |->
                    PyDict([leadSponsor |-> PyDict(Item("name", PyStr(<<"A","c","t","e","l","i","o","n">>)))])])))

PlaceboPublications ==
    PyDict([scientific_publications |->
                PyList(<<Publication(<<"R","e","s","u","l","t","s">>,
                                     PyStr(<<"P","l","a","c","e","b","o",":"," ","P","V","R"," ","i","n","c","r","e","a","s","e","d"," ","b","y"," ","5",".","2","%"," ","(","p","=","0",".","0","4",")"," ","a","t"," ","w","e","e","k"," ","1","6">>))>>),
            company_presentations |-> EmptyList])

\* that document with results measured in a group of neither arm and in a
\* placebo group
ObservedTrial ==
    PyDict(SponsoredTrial.v @@ ResultsOf(<<<<"O","b","s","e","r","v","a","t","i","o","n">>, <<"P","l","a","c","e","b","o">>>>).v)

\* the files of json_dir when the API starts
ApiDirectories ==
    {NoFiles,
     WriteFile(NoFiles, KnownId \o <<".","j","s","o","n">>, Processing(KnownTrial, ResultsPublications).text),
     WriteFile(WriteFile(NoFiles, KnownId \o <<".","j","s","o","n">>, Processing(KnownTrial, ResultsPublications).text),
               UnknownId \o <<".","j","s","o","n">>, Processing(SponsoredTrial, PlaceboPublications).text),
     WriteFile(NoFiles, UnknownId \o <<".","j","s","o","n">>, Processing(SponsoredTrial, PlaceboPublications).text),
     WriteFile(NoFiles, UnknownId \o <<".","j","s","o","n">>, Processing(ObservedTrial, None).text)}

\* the tables of the relational store while the API runs
ApiDatabases ==
    {NoRows,
     ProcessClinicalStudy(SavedRecord(KnownTrial, ResultsPublications), NoRows),
     ProcessClinicalStudy(SavedRecord(SponsoredTrial, PlaceboPublications),
         ProcessClinicalStudy(SavedRecord(KnownTrial, ResultsPublications), NoRows)),
     ProcessClinicalStudy(SavedRecord(SponsoredTrial, PlaceboPublications), NoRows),
     ProcessClinicalStudy(SavedRecord(ObservedTrial, None), NoRows)}

\* the module is imported: json_trials, json_trial_details = get_json_data()
ApiInit ==
    /\ files \in ApiDirectories
    /\ database \in ApiDatabases
    /\ \E listing \in Listings(files) :
           \E data \in {GetJsonData(files, listing)} :
               /\ json_trials = data.trials
               /\ json_trial_details = data.trial_details
    /\ request = None
    /\ response = None
    /\ files_before = None /\ args = None /\ processed = None /\ saved_as = None
    /\ reloaded = None /\ runs = 0
    /\ session = None /\ loaded = None /\ session_before = None
    /\ DedupIdle /\ NameIdle /\ PubsIdle /\ GroupsIdle /\ BatchIdle /\ FetchIdle

\* the query parameters of the requests of the model
Skips == {0, 1}
Limits == {1, 10}
Indications == {None, PyStr(<<"h","y","p","e","r","t","e","n","s","i","o","n">>)}
Sponsors == {None, PyStr(<<"A","C","T","E","L","I","O","N">>)}
NctIds == {KnownId, UnknownId, <<"N","C","T","0","0","0","0","0","0","0","0">>}
EndpointNames == {<<"p","v","r">>, <<"6","m","w","d">>, <<"w","a","l","k">>}

\* GET /trials
GetTrialsRequest(db, raised_at_yield, skip, limit, indication, sponsor) ==
    /\ request' = [route |-> "/trials", db |-> db, raised_at_yield |-> raised_at_yield,
                   skip |-> skip, limit |-> limit, indication |-> indication, sponsor |-> sponsor]
    /\ response' = GetDb(db, raised_at_yield,
                         GetTrials(db, database, json_trials, skip, limit, indication, sponsor))
    /\ UNCHANGED <<json_trials, json_trial_details, pipeline_vars, dedup_vars, name_vars, pubs_vars,
                   groups_vars, store_vars, batch_vars, fetch_vars>>

\* GET /trials/{nct_id}
GetTrialByNctRequest(db, raised_at_yield, nct_id) ==
    /\ request' = [route |-> "/trials/{nct_id}", db |-> db, raised_at_yield |-> raised_at_yield,
                   nct_id |-> nct_id]
    /\ response' = GetDb(db, raised_at_yield, GetTrialByNct(db, database, json_trial_details, nct_id))
    /\ UNCHANGED <<json_trials, json_trial_details, pipeline_vars, dedup_vars, name_vars, pubs_vars,
                   groups_vars, store_vars, batch_vars, fetch_vars>>

\* GET /endpoints/{endpoint_name}
CompareEndpointRequest(db, raised_at_yield, endpoint_name, include_placebo) ==
    /\ request' = [route |-> "/endpoints/{endpoint_name}", db |-> db, raised_at_yield |-> raised_at_yield,
                   endpoint_name |-> endpoint_name, include_placebo |-> include_placebo]
    /\ response' = GetDb(db, raised_at_yield,
                         CompareEndpoint(db, database, json_trial_details, endpoint_name, include_placebo))
    /\ UNCHANGED <<json_trials, json_trial_details, pipeline_vars, dedup_vars, name_vars, pubs_vars,
                   groups_vars, store_vars, batch_vars, fetch_vars>>

\* GET /health
HealthCheck(trials) ==
    Ok(PyDict([status |-> PyStr(<<"h","e","a","l","t","h","y">>),
               db_type |-> PyStr(<<"P","o","s","t","g","r","e","S","Q","L"," ","w","i","t","h"," ","J","S","O","N"," ","f","a","l","l","b","a","c","k">>),
               trials_loaded |-> PyInt(Len(trials)),
               version |-> PyStr(<<"1",".","0">>)]))

HealthCheckRequest ==
    /\ request' = [route |-> "/health", db |-> "not used", raised_at_yield |-> FALSE]
    /\ response' = HealthCheck(json_trials)
    /\ UNCHANGED <<json_trials, json_trial_details, pipeline_vars, dedup_vars, name_vars, pubs_vars,
                   groups_vars, store_vars, batch_vars, fetch_vars>>

\* processor.compare_trials_by_endpoint(endpoint_name, include_placebo), over
\* the files as they are
CompareTrialsByEndpointCall(endpoint_name, include_placebo) ==
    /\ request' = [route |-> "compare_trials_by_endpoint", db |-> "files", raised_at_yield |-> FALSE,
                   endpoint_name |-> endpoint_name, include_placebo |-> include_placebo]
    /\ \E listing \in Listings(files) :
           response' = CompareTrialsByEndpoint(files, listing, endpoint_name, include_placebo)
    /\ UNCHANGED <<json_trials, json_trial_details, pipeline_vars, dedup_vars, name_vars, pubs_vars,
                   groups_vars, store_vars, batch_vars, fetch_vars>>

\* process_and_save_trial calls of a processing run while the API serves
MaxWrites == 1

\* the documents of that run: a trial that may have no file yet, and a trial
\* whose file the run overwrites
ServingRuns == {<<SponsoredTrial, PlaceboPublications>>, <<KnownTrial, None>>}

\* process_and_save_trial(trial_data, None, publications) by a processing run,
\* in another process than the API's
ProcessAndSaveTrialWhileServing(trial_data, publications) ==
    /\ runs < MaxWrites
    /\ runs' = runs + 1
    /\ \E done \in {Processing(trial_data, publications)} :
           files' = WriteFile(files, done.json_path, done.text)
    /\ UNCHANGED <<files_before, args, processed, saved_as, reloaded, api_vars, dedup_vars, name_vars,
                   pubs_vars, groups_vars, store_vars, batch_vars, fetch_vars>>

\* one request of each behaviour is followed: the handlers change neither
\* the store nor the JSON data, so a later request is answered as a first
\* one is
ApiNext ==
    \E db \in DbStates, raised_at_yield \in BOOLEAN :
        \/ \E skip \in Skips, limit \in Limits, indication \in Indications, sponsor \in Sponsors :
               request = None /\ GetTrialsRequest(db, raised_at_yield, skip, limit, indication, sponsor)
        \/ \E nct_id \in NctIds :
               request = None /\ GetTrialByNctRequest(db, raised_at_yield, nct_id)
        \/ \E endpoint_name \in EndpointNames, include_placebo \in BOOLEAN :
               request = None /\ CompareEndpointRequest(db, raised_at_yield, endpoint_name, include_placebo)
        \/ request = None /\ HealthCheckRequest
        \/ \E endpoint_name \in EndpointNames, include_placebo \in BOOLEAN :
               request = None /\ CompareTrialsByEndpointCall(endpoint_name, include_placebo)
        \/ \E run \in ServingRuns :
               request = None /\ ProcessAndSaveTrialWhileServing(run[1], run[2])

SpecApi == ApiInit /\ [][ApiNext]_vars
-----------------------------------------------------------------------------
(* The operations over a directory of trial files, one of which may hold   *)
(* a text that is not JSON: load_and_process_all_trials over the raw       *)
(* directory, and load_all_trials, get_json_data and the loader's main     *)
(* over the directory of the processed files.                              *)

\* the text of a file that is not JSON
MalformedText == [j |-> "malformed"]

\* the name of a file whose text was cut short
TruncatedId == <<"N","C","T","0","0","0","0","0","0","0","0">>

\* the directories of processed files: the file of each of two trials may be
\* there, whole or not JSON, and so may a third file that is not JSON
BatchDirectories ==
    {known @@ other @@ third :
        known \in {<<>>, Item(KnownId \o <<".","j","s","o","n">>, Processing(KnownTrial, ResultsPublications).text),
                   Item(KnownId \o <<".","j","s","o","n">>, MalformedText)},
        other \in {<<>>, Item(UnknownId \o <<".","j","s","o","n">>, Processing(SponsoredTrial, PlaceboPublications).text)},
        third \in {<<>>, Item(TruncatedId \o <<".","j","s","o","n">>, MalformedText)}}

\* the directories of raw files
RawDirectories ==
    {known @@ other :
        known \in {Item(KnownId \o <<".","j","s","o","n">>, JsonDump(KnownTrial)),
                   Item(KnownId \o <<".","j","s","o","n">>, MalformedText)},
        other \in {<<>>, Item(UnknownId \o <<".","j","s","o","n">>, JsonDump(SponsoredTrial))}}

\* load_and_process_all_trials(raw_dir): the loop over json_files in the order
\* listing, from file listing[i] on; json.load or process_and_save_trial
\* raising ends the call
RECURSIVE LoadAndProcessAllTrialsFrom(_, _, _, _)
LoadAndProcessAllTrialsFrom(raw, listing, i, acc) ==
    IF i > Len(listing) THEN acc
    ELSE IF JsonDecodeError(raw[listing[i]]) THEN [acc EXCEPT !.raised = TRUE]
    ELSE WithValue(Processing(JsonLoad(raw[listing[i]]), None),
                   LAMBDA done :
                       IF done.processed_data = Raised THEN [acc EXCEPT !.raised = TRUE]
                       ELSE LoadAndProcessAllTrialsFrom(raw, listing, i + 1,
                                [dir |-> WriteFile(acc.dir, done.json_path, done.text),
                                 output_paths |-> Append(acc.output_paths, done.json_path),
                                 raised |-> FALSE]))

LoadAndProcessAllTrials(raw, listing, dir) ==
    LoadAndProcessAllTrialsFrom(raw, listing, 1, [dir |-> dir, output_paths |-> <<>>, raised |-> FALSE])

\* a batch operation that is one call
Called(fn, dir, listing, raised) ==
    [fn |-> fn, dir |-> dir, listing |-> listing, at |-> Len(listing) + 1,
     status |-> IF raised THEN "raised" ELSE "returned"]

BatchInit ==
    /\ files \in BatchDirectories
    /\ raw_dir \in RawDirectories
    /\ database \in ApiDatabases
    /\ session = None
    /\ loaded = <<>>
    /\ session_before = None
    /\ batch = None
    /\ json_trials = <<>> /\ json_trial_details = <<>>
    /\ request = None /\ response = None
    /\ files_before = None /\ args = None /\ processed = None /\ saved_as = None
    /\ reloaded = None /\ runs = 0
    /\ DedupIdle /\ NameIdle /\ PubsIdle /\ GroupsIdle /\ FetchIdle

\* TrialProcessor.load_and_process_all_trials(raw_dir)
LoadAndProcessAllTrialsCall ==
    /\ batch = None
    /\ \E listing \in Listings(raw_dir) :
           \E done \in {LoadAndProcessAllTrials(raw_dir, listing, files)} :
               /\ files' = done.dir
               /\ batch' = Called("load_and_process_all_trials", raw_dir, listing, done.raised)
    /\ UNCHANGED <<raw_dir, files_before, args, processed, saved_as, reloaded, runs, dedup_vars,
                   name_vars, pubs_vars, groups_vars, store_vars, api_vars, fetch_vars>>

\* EndpointProcessor.load_all_trials()
LoadAllTrialsCall ==
    /\ batch = None
    /\ reloaded' = LoadAllTrials(files)
    /\ \E listing \in Listings(files) : batch' = Called("load_all_trials", files, listing, FALSE)
    /\ UNCHANGED <<raw_dir, files, files_before, args, processed, saved_as, runs, dedup_vars,
                   name_vars, pubs_vars, groups_vars, store_vars, api_vars, fetch_vars>>

\* json_trials, json_trial_details = get_json_data()
GetJsonDataCall ==
    /\ batch = None
    /\ \E listing \in Listings(files) :
           \E data \in {GetJsonData(files, listing)} :
               /\ json_trials' = data.trials
               /\ json_trial_details' = data.trial_details
               /\ batch' = Called("get_json_data", files, listing, FALSE)
    /\ UNCHANGED <<raw_dir, request, response, pipeline_vars, dedup_vars, name_vars, pubs_vars,
                   groups_vars, store_vars, fetch_vars>>

\* main() of the loader up to the loop of load_json_data: the tables are
\* dropped and created, the session is opened, the directory is listed
LoadJsonDataBegin ==
    /\ batch = None
    /\ database' = NoRows
    /\ session' = NoRows
    /\ \E listing \in Listings(files) :
           batch' = [fn |-> "load_json_data", dir |-> files, listing |-> listing, at |-> 1,
                     status |-> "running"]
    /\ UNCHANGED <<raw_dir, loaded, session_before, pipeline_vars, dedup_vars, name_vars, pubs_vars,
                   groups_vars, api_vars, fetch_vars>>

\* a loader that commits after the rows of each file
LoadJsonDataFileCommitted ==
    /\ batch # None
    /\ batch.status = "running"
    /\ batch.at <= Len(batch.listing)
    /\ IF JsonDecodeError(files[batch.listing[batch.at]])
       THEN /\ session' = database
            /\ batch' = [batch EXCEPT !.status = "raised"]
            /\ UNCHANGED <<loaded, session_before, database>>
       ELSE \E data \in {JsonLoad(files[batch.listing[batch.at]])} :
                /\ loaded' = Append(loaded, data)
                /\ session_before' = session
                /\ session' = ProcessClinicalStudy(data, session)
                /\ database' = ProcessClinicalStudy(data, session)
                /\ batch' = [batch EXCEPT !.at = @ + 1]
    /\ UNCHANGED <<raw_dir, pipeline_vars, dedup_vars, name_vars, pubs_vars,
                   groups_vars, api_vars, fetch_vars>>

\* one turn of the loop of load_json_data: json.load of the next file and
\* process_clinical_study(data, session); if json.load raises, main's
\* session.rollback() and the exception raised again
LoadJsonDataFile ==
    /\ batch # None
    /\ batch.status = "running"
    /\ batch.at <= Len(batch.listing)
    /\ IF JsonDecodeError(files[batch.listing[batch.at]])
       THEN /\ session' = database
            /\ batch' = [batch EXCEPT !.status = "raised"]
            /\ UNCHANGED <<loaded, session_before>>
       ELSE \E data \in {JsonLoad(files[batch.listing[batch.at]])} :
                /\ loaded' = Append(loaded, data)
                /\ session_before' = session
                /\ session' = ProcessClinicalStudy(data, session)
                /\ batch' = [batch EXCEPT !.at = @ + 1]
    /\ UNCHANGED <<raw_dir, database, pipeline_vars, dedup_vars, name_vars, pubs_vars,
                   groups_vars, api_vars, fetch_vars>>

\* session.commit() after the loop of load_json_data
LoadJsonDataCommit ==
    /\ batch # None
    /\ batch.status = "running"
    /\ batch.at > Len(batch.listing)
    /\ database' = session
    /\ batch' = [batch EXCEPT !.status = "returned"]
    /\ UNCHANGED <<raw_dir, session, loaded, session_before, pipeline_vars, dedup_vars, name_vars,
                   pubs_vars, groups_vars, api_vars, fetch_vars>>

BatchNext ==
    \/ LoadAndProcessAllTrialsCall
    \/ LoadAllTrialsCall
    \/ GetJsonDataCall
    \/ LoadJsonDataBegin
    \/ LoadJsonDataFile
    \/ LoadJsonDataCommit

SpecBatch == BatchInit /\ [][BatchNext]_vars

-----------------------------------------------------------------------------
(* The registry search: ClinicalTrialsFetcher.search_trials in             *)
(* src/src/data_fetchers/clinicaltrials_fetcher.py.                        *)

\* search_trials calls in one behaviour
MaxFetches == 2

\* the studies the registry holds
RegistryStudies == <<KnownTrial, UnknownTrial>>

\* what requests.get(BASE_URL, params=params) meets: an exception of
\* requests.exceptions raised by the call itself, or a response with a
\* status and a JSON body of at most pageSize studies
HttpOutcomes(max_results) ==
    {[raised |-> TRUE, error |-> e] : e \in {"ConnectionError", "Timeout"}}
    \cup {[raised |-> FALSE, status |-> status, body |-> EmptyDict] : status \in {404, 500}}
    \cup {[raised |-> FALSE, status |-> 200, body |-> body] :
             body \in {EmptyDict,
                       PyDict([studies |-> EmptyList]),
                       PyDict([studies |-> PyList(Page(RegistryStudies, 0, max_results))])}}

\* response.raise_for_status() raises requests.exceptions.HTTPError
RaiseForStatus(http) == http.status >= 400

\* search_trials(condition, max_results): the list returned, or Raised.  The
\* handler of requests.exceptions.RequestException prints response.url:
\* response is unbound if requests.get raised, and the handler raises
\* UnboundLocalError
SearchTrials(condition, max_results, http) ==
    IF http.raised THEN Raised
    ELSE IF RaiseForStatus(http) THEN EmptyList
    ELSE Get(http.body, "studies", EmptyList)

Conditions == {<<"P","u","l","m","o","n","a","r","y"," ","A","r","t","e","r","i","a","l"," ","H","y","p","e","r","t","e","n","s","i","o","n">>, <<"P","A","H">>}

PageSizes == {1, 100}

FetchInit ==
    /\ fetched = <<>>
    /\ PipelineIdle /\ DedupIdle /\ NameIdle /\ PubsIdle /\ GroupsIdle /\ StoreIdle /\ ApiIdle
    /\ BatchIdle

\* fetcher.search_trials(condition=condition, max_results=max_results)
SearchTrialsCall(condition, max_results, http) ==
    /\ Len(fetched) < MaxFetches
    /\ fetched' = Append(fetched, [condition |-> condition, max_results |-> max_results,
                                   http |-> http,
                                   result |-> SearchTrials(condition, max_results, http)])
    /\ UNCHANGED <<pipeline_vars, dedup_vars, name_vars, pubs_vars, groups_vars, store_vars,
                   api_vars, batch_vars>>

FetchNext ==
    \E condition \in Conditions, max_results \in PageSizes :
        \E http \in HttpOutcomes(max_results) : SearchTrialsCall(condition, max_results, http)

SpecFetch == FetchInit /\ [][FetchNext]_vars

-----------------------------------------------------------------------------
(* The properties of the fallback chain.                                   *)

\* the record process_and_save_trial built, if it returned
Returned == args # None /\ processed # None /\ processed # Raised

\* the tier an entry comes from, by its provenance: the structured tier sets
\* no source, the free-text tier a source that begins "Extracted from "
TierOf(entry) ==
    IF ~HasKey(entry, "source") THEN "structured"
    ELSE IF StartsWith(entry.v.source.v, <<"E","x","t","r","a","c","t","e","d"," ","f","r","o","m"," ">>) THEN "free-text"
    ELSE "literature"

TiersOf(entries) == {TierOf(entries[i]) : i \in 1..Len(entries)}

\* The tiers of a returned list are consulted in order: its entries come from
\* one tier, from the free-text tier only if the structured tier is empty,
\* and from the literature tier only if the free-text tier is empty too
InTierOrder(entries, structured, publication_data) ==
    /\ Cardinality(TiersOf(entries)) = 1
    /\ "structured" \in TiersOf(entries) => entries = structured
    /\ "free-text" \in TiersOf(entries) => structured = <<>>
    /\ "literature" \in TiersOf(entries) => structured = <<>> /\ publication_data = <<>>

\* what the structured tier produces of every raw document of the model,
\* computed once
StructuredOutputs ==
    [trial_data \in RawTrials |->
        [endpoints |-> StructuredEndpoints(trial_data),
         baselines |-> StructuredBaselines(trial_data)]] @@ <<>>

\* what the free-text tier produces of every publications input of the
\* model, computed once (Raised where a text is null)
PublicationOutputs ==
    [publications \in PublicationChoices |->
        IF PublicationTextRaises(publications) THEN [endpoints |-> Raised, baselines |-> Raised]
        ELSE [endpoints |-> ExtractPublicationEndpoints(Or(publications, NoPublications)),
              baselines |-> ExtractPublicationBaselineMeasures(Or(publications, NoPublications))]] @@ <<>>

\* C1: extract_real_endpoints and extract_real_baseline_measures consult the
\* tiers in the order structured, free-text, literature and stop at the first
\* that is not empty: a returned list holds the entries of exactly one tier,
\* of the free-text tier only when the structured tier produced nothing, and
\* of the literature tier only when both earlier tiers produced nothing.
FallbackStopsAtFirstTier ==
    Returned =>
        \E structured \in {StructuredOutputs[args.trial_data]},
           publication_data \in {PublicationOutputs[args.publications]} :
            /\ InTierOrder(processed.v.endpoints.v, structured.endpoints, publication_data.endpoints)
            /\ InTierOrder(processed.v.baseline_measures.v, structured.baselines, publication_data.baselines)

\* the endpoints came from the publication while the baseline measures came
\* from the results section
FreeTextEndpointsReached ==
    /\ Returned
    /\ TiersOf(processed.v.endpoints.v) = {"free-text"}
    /\ TiersOf(processed.v.baseline_measures.v) = {"structured"}

\* C2: for every raw trial document and every publications input the
\* orchestrator returns a non-empty endpoint list and a non-empty baseline
\* measure list.
AlwaysNonEmptyLists ==
    args # None =>
        /\ processed # Raised
        /\ processed.v.endpoints.v # <<>>
        /\ processed.v.baseline_measures.v # <<>>

\* protocolSection.identificationModule.nctId of a raw trial document
RegistryId(trial_data) ==
    Get(Get(Get(trial_data, "protocolSection", EmptyDict), "identificationModule", EmptyDict),
        "nctId", EmptyStr).v

\* C3: when process_and_save_trial reaches the literature tier for a document
\* whose registry identifier is a key of the lookup table, it stores that
\* identifier's entries; the DEFAULT entries are used only for an identifier
\* that is not in the table.
LiteratureEntriesOfIdentifier ==
    Returned =>
        /\ (/\ "literature" \in TiersOf(processed.v.endpoints.v)
            /\ RegistryId(args.trial_data) \in DOMAIN real_endpoints)
           => processed.v.endpoints.v = real_endpoints[RegistryId(args.trial_data)]
        /\ (/\ "literature" \in TiersOf(processed.v.baseline_measures.v)
            /\ RegistryId(args.trial_data) \in DOMAIN real_baselines)
           => processed.v.baseline_measures.v = real_baselines[RegistryId(args.trial_data)]

\* a finite number or null
FiniteOrNull(x) == x = None \/ x.t \in {"int", "float"}

NumericFieldsFinite(entries) ==
    \A i \in 1..Len(entries) :
        TierOf(entries[i]) \in {"structured", "free-text"} =>
            /\ FiniteOrNull(Get(entries[i], "average_value", None))
            /\ FiniteOrNull(Get(entries[i], "upper_end", None))
            /\ FiniteOrNull(Get(entries[i], "lower_end", None))

\* C4: in every entry of the structured and the free-text tier, average_value,
\* upper_end and lower_end are each a finite number or null; a string of the
\* source is never passed on as a string or as a value that is not finite.
NumericFieldsFiniteOrNull ==
    Returned =>
        /\ NumericFieldsFinite(processed.v.endpoints.v)
        /\ NumericFieldsFinite(processed.v.baseline_measures.v)

\* the outcome section of the scenario: one outcome, the groups
\* "Experimental Arm" and "Placebo", the values "22.0" and "-8.0"
WalkDistanceOutcomes == OutcomeMeasures(PyStr(<<"2","2",".","0">>), PyStr(<<"-","8",".","0">>), <<>>)

\* C5: for the outcome "6-Minute Walk Distance" with a measurement "22.0" of
\* the group "Experimental Arm" and a measurement "-8.0" of the group
\* "Placebo", the structured tier emits exactly two entries, both named by the
\* outcome title: one of arm intervention with the number 22.0, one of arm
\* placebo with the number -8.0.
WalkDistanceScenario ==
    (/\ Returned
     /\ Get(Get(args.trial_data, "resultsSection", EmptyDict), "outcomesMeasures", None)
            = WalkDistanceOutcomes)
    => LET endpoints == processed.v.endpoints.v
       IN  /\ Len(endpoints) = 2
           /\ \A i \in 1..2 : endpoints[i].v.name = PyStr(<<"6","-","M","i","n","u","t","e"," ","W","a","l","k"," ","D","i","s","t","a","n","c","e">>)
           /\ \E i \in 1..2 : /\ endpoints[i].v.arm = PyStr(<<"i","n","t","e","r","v","e","n","t","i","o","n">>)
                              /\ endpoints[i].v.average_value = PyFloat(22, 0)
           /\ \E i \in 1..2 : /\ endpoints[i].v.arm = PyStr(<<"p","l","a","c","e","b","o">>)
                              /\ endpoints[i].v.average_value = PyFloat(-8, 0)

-----------------------------------------------------------------------------
(* The properties of the free-text extractor.                              *)

ResistanceText ==
    <<".",".",".","P","V","R"," ","d","e","c","r","e","a","s","e","d"," ","b","y"," ","3","6",".","8","%"," ","(","p","<","0",".","0","0","0","1",")"," ","i","n"," ","t","h","e"," ","t","r","e","a","t","m","e","n","t"," ","g","r","o","u","p"," ","v","s"," ","b","a","s","e","l","i","n","e"," ","8","5","4",".",".",".">>

\* C6, as the specification states it: for a publication whose text is
\* "...PVR decreased by 36.8% (p<0.0001) in the treatment group vs baseline
\* 854...", the extractor returns an entry of the pattern group PVR with
\* average_value 36.8, arm intervention and a significance that is not null.
ResistanceEntryExtracted ==
    (pubs_out # None /\ pubs_in \in PublicationsOf(ResistanceText)) =>
        \E i \in 1..Len(pubs_out.v) :
            /\ pubs_out.v[i].v.name = PyStr(<<"P","V","R">>)
            /\ pubs_out.v[i].v.average_value = PyFloat(368, -1)
            /\ pubs_out.v[i].v.arm = PyStr(<<"i","n","t","e","r","v","e","n","t","i","o","n">>)
            /\ pubs_out.v[i].v.statistical_significance # None

\* C6, amended: every match of the PVR patterns in that text is skipped,
\* because its context holds "baseline"; what the extractor returns for a
\* scientific publication with that text is the one entry of the generic
\* pattern "decreased by N%": name Endpoint, average_value 36.8, arm and
\* significance "Not specified".
ResistanceEntryIsGeneric ==
    (/\ pubs_out # None
     /\ pubs_in \in PublicationsOf(ResistanceText)
     /\ pubs_in.v.scientific_publications # EmptyList)
    => /\ Len(pubs_out.v) = 1
       /\ pubs_out.v[1].v.name = PyStr(<<"E","n","d","p","o","i","n","t">>)
       /\ pubs_out.v[1].v.average_value = PyFloat(368, -1)
       /\ pubs_out.v[1].v.arm = PyStr(<<"N","o","t"," ","s","p","e","c","i","f","i","e","d">>)
       /\ pubs_out.v[1].v.statistical_significance = PyStr(<<"N","o","t"," ","s","p","e","c","i","f","i","e","d">>)

\* the extractor has returned an entry for the full text of the scenario
ResistanceTextExtracted ==
    /\ pubs_out # None
    /\ pubs_out.v # <<>>
    /\ pubs_in.v.scientific_publications = PyList(<<Publication(<<"R","e","s","u","l","t","s">>, PyStr(ResistanceText))>>)

-----------------------------------------------------------------------------
(* The properties of deduplication.                                        *)

\* the number of fields of an entry that are not null
NonNullFields(entry) == Cardinality({f \in DOMAIN entry.v : entry.v[f] # None})

NameAndArm(entry) == <<entry.v.name, entry.v.arm>>

\* the position in data of the first of the entries that have the most
\* fields that are not null among those with the name and arm of data[i]
FirstOfMostComplete(data, i) ==
    CHOOSE j \in 1..Len(data) :
        /\ NameAndArm(data[j]) = NameAndArm(data[i])
        /\ \A k \in 1..Len(data) :
               NameAndArm(data[k]) = NameAndArm(data[i]) =>
                   \/ NonNullFields(data[k]) < NonNullFields(data[j])
                   \/ NonNullFields(data[k]) = NonNullFields(data[j]) /\ j <= k

\* C7: deduplication returns exactly one entry per (name, arm) pair of its
\* input: the member of the pair's group with the most fields that are not
\* null, and of the members tied for the most the first of the input.
DedupKeepsFirstMostComplete ==
    dedup_out # None =>
        LET data == dedup_in.v
            kept == dedup_out.v
        IN  /\ \A i, j \in 1..Len(kept) : NameAndArm(kept[i]) = NameAndArm(kept[j]) => i = j
            /\ {NameAndArm(kept[i]) : i \in 1..Len(kept)} = {NameAndArm(data[i]) : i \in 1..Len(data)}
            /\ \A i \in 1..Len(data) :
                   \E k \in 1..Len(kept) : kept[k] = data[FirstOfMostComplete(data, i)]

\* three candidates of one pair: the first has fewer fields than the other
\* two, which are tied and differ, and the second is the one kept
TieBrokenByFirstSeen ==
    /\ dedup_out # None
    /\ Len(dedup_in.v) = 3
    /\ NameAndArm(dedup_in.v[1]) = NameAndArm(dedup_in.v[2])
    /\ NameAndArm(dedup_in.v[2]) = NameAndArm(dedup_in.v[3])
    /\ NonNullFields(dedup_in.v[1]) < NonNullFields(dedup_in.v[2])
    /\ NonNullFields(dedup_in.v[2]) = NonNullFields(dedup_in.v[3])
    /\ dedup_in.v[2] # dedup_in.v[3]
    /\ dedup_out.v = <<dedup_in.v[2]>>

\* C8: deduplication is idempotent: deduplicating what deduplication returned
\* returns the same list.
DedupIdempotent == dedup_again # None => dedup_again = dedup_out

\* a second deduplication of a list from which the first removed an entry
\* and kept two
DedupTwiceReached ==
    /\ dedup_again # None
    /\ Len(dedup_out.v) = 2
    /\ Len(dedup_in.v) = 3

-----------------------------------------------------------------------------
(* The properties of normalize_endpoint_name.                              *)

\* alias occurs in name at some position, whatever the case of the letters
OccursIgnoringCase(alias, name) ==
    \E i \in 0..(Len(name) - Len(alias)) :
        \A k \in 1..Len(alias) : LowerChar(name[i + k]) = LowerChar(alias[k])

\* the categories of the alias table of which an alias occurs in name
CategoriesIn(name) ==
    {c \in 1..Len(endpoint_aliases) :
        \E a \in 1..Len(endpoint_aliases[c].aliases) :
            OccursIgnoringCase(endpoint_aliases[c].aliases[a], name)}

\* the words of a name: its longest runs of characters that are no whitespace
RECURSIVE WordsOf(_, _)
WordsOf(s, word) ==
    IF s = <<>> THEN (IF word = <<>> THEN <<>> ELSE <<word>>)
    ELSE IF s[1] \in Whitespace
         THEN (IF word = <<>> THEN <<>> ELSE <<word>>) \o WordsOf(Tail(s), <<>>)
         ELSE WordsOf(Tail(s), Append(word, s[1]))

\* the words with one space between two of them
RECURSIVE JoinWords(_)
JoinWords(words) ==
    IF words = <<>> THEN <<>>
    ELSE IF Len(words) = 1 THEN words[1]
    ELSE words[1] \o <<" ">> \o JoinWords(Tail(words))

\* C9: for a name that is not empty, normalize_endpoint_name returns the
\* upper-cased label of the first category, in the order of the alias table,
\* of which an alias occurs in the name whatever the case; if no alias of
\* any category occurs, it returns the name with every run of whitespace
\* collapsed to one space and the whitespace at both ends removed.
NormalizesToFirstCategory ==
    (name_out # None /\ name_in.v # <<>>) =>
        LET found == CategoriesIn(name_in.v)
        IN  IF found # {}
            THEN name_out.v = Upper(endpoint_aliases[CHOOSE c \in found : \A d \in found : c <= d].standard_name)
            ELSE name_out.v = JoinWords(WordsOf(name_in.v, <<>>))

\* a name with aliases of the second and of the first category, in this
\* order and in mixed case, has been normalized to the first category
FirstCategoryWins ==
    /\ name_in = PyStr(<<"6","m","w","d","P","V","R">>)
    /\ name_out = PyStr(<<"P","V","R">>)

-----------------------------------------------------------------------------
(* The properties of the persisted file.                                   *)

\* a == b of Python for a value a and a value b that json.load built: equal
\* types and contents, an int equal to the float of the same value, and NaN
\* equal to nothing
RECURSIVE PyEquals(_, _)
PyEquals(a, b) ==
    CASE a.t = "nan" \/ b.t = "nan" -> FALSE
      [] a.t = "list" /\ b.t = "list" ->
           Len(a.v) = Len(b.v) /\ \A i \in 1..Len(a.v) : PyEquals(a.v[i], b.v[i])
      [] a.t = "dict" /\ b.t = "dict" ->
           DOMAIN a.v = DOMAIN b.v /\ \A k \in DOMAIN a.v : PyEquals(a.v[k], b.v[k])
      [] a.t = "int" /\ b.t = "float" -> b.e = 0 /\ b.m = a.v
      [] a.t = "float" /\ b.t = "int" -> a.e = 0 /\ a.m = b.v
      [] OTHER -> a = b

\* C10: for every record process_and_save_trial produced, reading the file
\* back yields a record equal to it field for field.
ReloadedEqualsProcessed ==
    (Returned /\ reloaded # None /\ saved_as # None /\ saved_as.v \in DOMAIN reloaded) =>
        PyEquals(reloaded[saved_as.v], processed)

-----------------------------------------------------------------------------
(* The properties of the normalization core: errors and provenance.        *)

\* C15: the normalization core has no fatal error path: whatever section or
\* field of the raw document and of the publications is absent, empty or
\* null, process_trial_data, extract_real_endpoints and
\* extract_real_baseline_measures return a result and never raise.
NoFatalErrorPath == args # None => processed # Raised

\* the source strings of the literature tables
LiteratureSources ==
    UNION {{real_endpoints[k][i].v.source : i \in 1..Len(real_endpoints[k])} : k \in DOMAIN real_endpoints}
    \cup UNION {{real_baselines[k][i].v.source : i \in 1..Len(real_baselines[k])} : k \in DOMAIN real_baselines}

\* every entry has a source; the entries the literature tier produced have a
\* source of the literature tables, the entries of the other tiers have not
ProvenanceTagged(entries, from_literature) ==
    \A i \in 1..Len(entries) :
        /\ HasKey(entries[i], "source")
        /\ from_literature <=> entries[i].v.source \in LiteratureSources

Arms == {PyStr(<<"i","n","t","e","r","v","e","n","t","i","o","n">>), PyStr(<<"p","l","a","c","e","b","o">>), PyStr(<<"u","n","k","n","o","w","n">>)}

\* the arm is one of the three, and that of a free-text entry of a known
\* pattern is placebo exactly when its context names a placebo term
ArmsOf(entries) ==
    \A i \in 1..Len(entries) :
        /\ entries[i].v.arm \in Arms
        /\ (TierOf(entries[i]) = "free-text" /\ entries[i].v.name # PyStr(<<"E","n","d","p","o","i","n","t">>)) =>
              (entries[i].v.arm = PyStr(<<"p","l","a","c","e","b","o">>)
                   <=> ContainsAny(entries[i].v.context.v, PlaceboTerms))

\* C20: every entry the orchestrator returns, from whichever tier, has an arm
\* among intervention, placebo and unknown; a free-text entry of a known
\* pattern has the arm placebo exactly when its context mentions "placebo",
\* "control group" or "control arm", and intervention otherwise.
ArmsClassified ==
    Returned => ArmsOf(processed.v.endpoints.v) /\ ArmsOf(processed.v.baseline_measures.v)

-----------------------------------------------------------------------------
(* The properties of the context of a free-text match.                     *)

\* the matches re.findall finds, each with the offset at which its number
\* (group 1) stands in the text
RECURSIVE NumbersFrom(_, _, _, _)
NumbersFrom(nodes, text, from, ic) ==
    WithValue(SearchFrom(nodes, text, from, ic),
              LAMBDA m :
                  IF ~m.ok THEN {}
                  ELSE {[pos |-> m.caps[1][1], number |-> Group1(text, m)]} \cup
                       NumbersFrom(nodes, text, IF m.end = m.start THEN m.end + 1 ELSE m.end, ic))

\* the numbers the patterns of the endpoint called name match in text
NumbersOf(name, text) ==
    UNION {NumbersFrom(endpoint_patterns[k].patterns[j], text, 0, TRUE) :
               k \in {n \in 1..Len(endpoint_patterns) : endpoint_patterns[n].name = name},
               j \in 1..4}

\* the text the extractor reads of the one document of publications
TextOf(publications) ==
    IF publications.v.scientific_publications # EmptyList
    THEN Lower(PubTextValue(publications.v.scientific_publications.v[1]).v)
    ELSE Lower(PresentationTextValue(publications.v.company_presentations.v[1]).v)

\* the entries of the known endpoint patterns among those returned
KnownEntries(entries) ==
    {entries[i] : i \in {n \in 1..Len(entries) : entries[n].v.name # PyStr(<<"E","n","d","p","o","i","n","t">>)}}

\* C17: the free-text endpoint extractor emits no entry for a match of a
\* known endpoint pattern whose context window holds a baseline term
\* ("baseline", "initial", "at screening", "at enrollment"): every entry it
\* returns is that of a match around which no such term stands.
NoEntryOfBaselineMatch ==
    pubs_out # None =>
        \A entry \in KnownEntries(pubs_out.v) :
            \E m \in NumbersOf(entry.v.name.v, TextOf(pubs_in)) :
                /\ ParseFloat(m.number).val = entry.v.average_value
                /\ ~ContainsAny(ContextAt(TextOf(pubs_in), m.pos), BaselineTerms)

\* C19: the context of every entry of a known pattern is the window of at
\* most 200 characters on each side of the position at which the pattern
\* matched the entry's number, also when the same number stands earlier in
\* the text.
ContextIsWindowOfMatch ==
    pubs_out # None =>
        \A entry \in KnownEntries(pubs_out.v) :
            \E m \in NumbersOf(entry.v.name.v, TextOf(pubs_in)) :
                /\ ParseFloat(m.number).val = entry.v.average_value
                /\ entry.v.context.v = ContextAt(TextOf(pubs_in), m.pos)

-----------------------------------------------------------------------------
(* The properties of the structured tier.                                  *)

\* a term occurs in the title, whatever the case of the letters
TitleHas(title, terms) == \E k \in 1..Len(terms) : OccursIgnoringCase(terms[k], title)

\* the arm of a group by its own title
ArmOfTitle(title) ==
    IF TitleHas(title, <<<<"p","l","a","c","e","b","o">>>>) THEN <<"p","l","a","c","e","b","o">>
    ELSE IF TitleHas(title, <<<<"i","n","t","e","r","v","e","n","t","i","o","n">>, <<"t","r","e","a","t","m","e","n","t">>, <<"e","x","p","e","r","i","m","e","n","t","a","l">>, <<"a","c","t","i","v","e">>>>)
    THEN <<"i","n","t","e","r","v","e","n","t","i","o","n">>
    ELSE <<"u","n","k","n","o","w","n">>

\* the titles of the groups of the results section, in their order
TitlesOf(trial_data) ==
    LET groups == trial_data.v.resultsSection.v.baselineData.v.baselineGroupList.v
    IN  [i \in 1..Len(groups) |-> groups[i].v.title.v]

\* C18: in the structured tier every measurement is labelled by the
\* classification of its own group: intervention if the title of the group
\* contains "intervention", "treatment", "experimental" or "active", placebo
\* if it contains "placebo", unknown only if it contains neither; the
\* measurements of two groups with intervention titles (or with placebo
\* titles) are all labelled intervention (or placebo).
EachGroupClassified ==
    groups_out # None =>
        LET titles == TitlesOf(groups_in)
        IN  /\ Len(groups_out.v) = Len(titles)
            /\ \A i \in 1..Len(titles) : groups_out.v[i].v.arm = PyStr(ArmOfTitle(titles[i]))

-----------------------------------------------------------------------------
(* The properties of the files and of the relational store.                *)

\* the file of the registry identifier of a raw document
FileOf(trial_data) == RegistryId(trial_data) \o <<".","j","s","o","n">>

\* C13: file writes are whole-file overwrites: after a run of
\* process_and_save_trial the file of the run's registry identifier holds the
\* output of that run alone, whatever earlier runs wrote to it, and the files
\* of all other identifiers are as they were before the run; a run that
\* ends in an exception has written nothing.
WholeFileOverwrite ==
    runs > 0 =>
        IF processed = Raised THEN files = files_before
        ELSE /\ DOMAIN files = DOMAIN files_before \cup {FileOf(args.trial_data)}
             /\ files[FileOf(args.trial_data)] = JsonDump(processed)
             /\ \A f \in DOMAIN files_before \ {FileOf(args.trial_data)} : files[f] = files_before[f]

\* a second run for the same identifier has replaced what the first wrote
FileReplaced ==
    /\ runs = 2
    /\ processed # Raised
    /\ FileOf(args.trial_data) \in DOMAIN files_before
    /\ files[FileOf(args.trial_data)] # files_before[FileOf(args.trial_data)]

\* the registry identifier of a record
IdentifierOf(data) == Get(Get(data, "clinical_study", EmptyDict), "nct_identifier", None)

\* the identifiers of the trial rows
IdentifiersIn(tables) ==
    {tables.clinical_study[i].nct_identifier : i \in 1..Len(tables.clinical_study)}

OneRowPerIdentifier(tables) ==
    \A i, j \in 1..Len(tables.clinical_study) :
        tables.clinical_study[i].nct_identifier = tables.clinical_study[j].nct_identifier => i = j

\* C14: after any sequence of record loads the trial table holds at most one
\* row per registry identifier; the load of a record whose identifier the
\* table already holds is skipped: it adds no trial row and no endpoint,
\* baseline measure, filing or publication row and leaves the rows as they
\* were.
OneRowPerIdentifierAndSkip ==
    /\ OneRowPerIdentifier(session)
    /\ OneRowPerIdentifier(database)
    /\ (loaded # <<>> /\ IdentifierOf(loaded[Len(loaded)]) \in IdentifiersIn(session_before))
          => session = session_before

\* a record has been skipped that differs from the loaded record of its
\* identifier, after a record of another identifier was loaded
DuplicateSkipped ==
    /\ Len(loaded) = 3
    /\ IdentifierOf(loaded[3]) = IdentifierOf(loaded[1])
    /\ IdentifierOf(loaded[2]) # IdentifierOf(loaded[1])
    /\ loaded[3] # loaded[1]
    /\ session = session_before
    /\ Len(session.clinical_study) = 2

\* the answer of the request from the JSON-file data alone
AnswerFromJson ==
    IF request.route = "/trials"
    THEN GetTrialsOfJson(json_trials, request.skip, request.limit, request.indication, request.sponsor)
    ELSE IF request.route = "/trials/{nct_id}"
    THEN TrialOfJson(json_trial_details, request.nct_id)
    ELSE EndpointsOfJson(json_trial_details, request.endpoint_name, request.include_placebo)

\* C11: when the relational store is unreachable (the connection or its
\* test query fails), every query endpoint (list trials, fetch one trial,
\* compare an endpoint) answers from the JSON-file data and not with a
\* server error.
UnreachableStoreFallsBack ==
    (request # None /\ request.db = "unreachable") =>
        /\ response.status # 500
        /\ response = AnswerFromJson

\* C12: fetching a trial by identifier answers not-found if and only if the
\* identifier is neither in the relational store nor in the JSON-file data;
\* when the store lacks the trial, or fails during the query, and the JSON
\* data has it, the JSON record is the answer.
NotFoundIffInNeither ==
    (request # None /\ request.route = "/trials/{nct_id}") =>
        LET in_store == ExistingStudy(database, PyStr(request.nct_id)) # {}
            in_json == DictHas(json_trial_details, request.nct_id)
        IN  /\ response.status = 404 <=> (~in_store /\ ~in_json)
            /\ ((~in_store \/ request.db = "query fails") /\ request.db # "unreachable" /\ in_json) =>
                   response = Ok(DictAt(json_trial_details, request.nct_id))
-----------------------------------------------------------------------------
(* The generic patterns of the free-text endpoint extractor.               *)

\* a generic pattern matches in the text of the one document
GenericMatchIn(publications) ==
    \E j \in 1..Len(generic_patterns) :
        SearchFrom(generic_patterns[j].pattern, TextOf(publications), 0, FALSE).ok

\* the generic entries among those returned
GenericEntries(entries) ==
    {entries[i] : i \in {n \in 1..Len(entries) : entries[n].v.name = PyStr(<<"E","n","d","p","o","i","n","t">>)}}

\* C21: if the known endpoint patterns extract nothing and a text blob (the
\* full text or the snippet of a publication, the text sample of a
\* presentation) holds a match of a generic pattern, the extractor returns
\* at least one generic entry, with arm and timepoint "Not specified"; no
\* generic entry is returned when a known pattern extracted something.
GenericFallbackOfEveryText ==
    pubs_out # None =>
        /\ (KnownEntries(pubs_out.v) = {} /\ GenericMatchIn(pubs_in)) =>
               \E entry \in GenericEntries(pubs_out.v) :
                   /\ entry.v.arm = PyStr(<<"N","o","t"," ","s","p","e","c","i","f","i","e","d">>)
                   /\ entry.v.timepoint = PyStr(<<"N","o","t"," ","s","p","e","c","i","f","i","e","d">>)
        /\ KnownEntries(pubs_out.v) # {} => GenericEntries(pubs_out.v) = {}

\* the pairs of value and context window of the entries of a list
ValueAndContextOf(entries) ==
    {<<entries[i].v.average_value, entries[i].v.context.v>> : i \in 1..Len(entries)}

\* C22: the baseline extractor emits an entry only with a context window that
\* holds a baseline-indicating term, and no value is emitted with the same
\* context window by both the endpoint extractor and the baseline extractor
\* called on the same publications.
ExtractorsDisjoint ==
    /\ baseline_out # None =>
           \A i \in 1..Len(baseline_out.v) :
               ContainsAny(baseline_out.v[i].v.context.v, BaselineTermsRequired)
    /\ (pubs_out # None /\ baseline_out # None) =>
           ValueAndContextOf(pubs_out.v) \cap ValueAndContextOf(baseline_out.v) = {}

\* the files of a directory that json.load can parse
WellFormedFiles(dir) == {f \in DOMAIN dir : IsTrialFile(f) /\ ~JsonDecodeError(dir[f])}

\* the registry identifier of the record of a file
IdentifierOfFile(dir, f) ==
    Get(Get(JsonLoad(dir[f]), "clinical_study", EmptyDict), "nct_identifier", None)

\* a batch operation has ended, by returning or by raising
Ended(fn) == batch # None /\ batch.fn = fn /\ batch.status # "running"

\* C23: a JSON decode error on one file never aborts a batch: after each of
\* the four operations over a directory, every file of the directory that
\* json.load can parse has contributed its record, whether or not another
\* file of the directory is malformed.
MalformedFileOnlySkipped ==
    /\ Ended("load_and_process_all_trials") =>
           \A f \in WellFormedFiles(batch.dir) :
               \E done \in {Processing(JsonLoad(batch.dir[f]), None)} :
                   /\ done.json_path \in DOMAIN files
                   /\ files[done.json_path] = done.text
    /\ Ended("load_all_trials") =>
           \A f \in WellFormedFiles(batch.dir) :
               HasRealData(JsonLoad(batch.dir[f])) =>
                   f \in DOMAIN reloaded /\ reloaded[f] = JsonLoad(batch.dir[f])
    /\ Ended("get_json_data") =>
           \A f \in WellFormedFiles(batch.dir) :
               Truthy(IdentifierOfFile(batch.dir, f)) =>
                   /\ DictHas(json_trial_details, IdentifierOfFile(batch.dir, f).v)
                   /\ DictAt(json_trial_details, IdentifierOfFile(batch.dir, f).v) = JsonLoad(batch.dir[f])
    /\ Ended("load_json_data") =>
           \A f \in WellFormedFiles(batch.dir) :
               ExistingStudy(database, IdentifierOfFile(batch.dir, f)) # {}

\* the rows of every table
RowsOf(tables) ==
    Len(tables.clinical_study) + Len(tables.endpoints) + Len(tables.baseline_measures)
    + Len(tables.sec_filings) + Len(tables.publications)

\* C24: a full database load is a single transaction: no row of the load is
\* committed while the files are being processed or after the processing of
\* a file failed, and once every file has been processed the rows of all
\* files are committed together.
LoadIsOneTransaction ==
    (batch # None /\ batch.fn = "load_json_data") =>
        /\ batch.status \in {"running", "raised"} => RowsOf(database) = 0
        /\ batch.status = "returned" =>
               /\ database = session
               /\ Len(loaded) = Len(batch.listing)
               /\ \A f \in DOMAIN batch.dir :
                      ExistingStudy(database, IdentifierOfFile(batch.dir, f)) # {}

\* the load of a directory failed at a file after the rows of another file
\* had been added to the session
LoadFailedAfterRowsAdded ==
    /\ batch # None /\ batch.fn = "load_json_data" /\ batch.status = "raised"
    /\ loaded # <<>>
    /\ RowsOf(database) = 0

\* the HTTP request failed: the call raised, or the response has an error status
RequestFailed(http) == http.raised \/ RaiseForStatus(http)

\* C25: whenever the HTTP request of search_trials fails, by raising or with
\* an error status, search_trials returns an empty list and does not raise.
FetchFailureNotFatal ==
    \A i \in 1..Len(fetched) :
        RequestFailed(fetched[i].http) => fetched[i].result = EmptyList

\* the directory after process_and_save_trial of one document, by a processor
\* that processed nothing else, into an empty directory
ProcessedAlone(trial_data, publications) ==
    LET done == Processings[<<trial_data, publications>>]
    IN  IF done.processed_data = Raised THEN NoFiles
        ELSE WriteFile(NoFiles, done.json_path, done.text)

AnswerFromFiles(data) ==
    IF request.route = "/health" THEN HealthCheck(data.trials)
    ELSE IF request.route = "/trials"
    THEN GetTrialsOfJson(data.trials, request.skip, request.limit, request.indication, request.sponsor)
    ELSE IF request.route = "/trials/{nct_id}"
    THEN TrialOfJson(data.trial_details, request.nct_id)
    ELSE EndpointsOfJson(data.trial_details, request.endpoint_name, request.include_placebo)

\* the request is answered from the JSON data: the health check, and a query
\* whose database query failed
AnsweredFromJson == request # None /\ request.db \in {"not used", "query fails"}

\* C27: after a processing run wrote a trial file while the API was running,
\* the next fallback answer and the record count of the health check are
\* those of the files as they are now.
FallbackReadsCurrentFiles ==
    (AnsweredFromJson /\ runs > 0) =>
        \E listing \in Listings(files) :
            \E data \in {GetJsonData(files, listing)} :
                response = GetDb(request.db, request.raised_at_yield, AnswerFromFiles(data))

\* the tables after the loader's main over the files listing[1..i] of a directory
RECURSIVE TablesOfFiles(_, _, _)
TablesOfFiles(dir, listing, i) ==
    IF i = 0 THEN NoRows
    ELSE ProcessClinicalStudy(JsonLoad(dir[listing[i]]), TablesOfFiles(dir, listing, i - 1))

\* the store and the JSON data of the API hold the records of the files
SamePersistedRecords ==
    /\ runs = 0
    /\ \E listing \in Listings(files) : database = TablesOfFiles(files, listing, Len(listing))

\* the rows of an answer as a set, or that the answer is not-found
RowSetOf(answer) ==
    IF answer.status = 404 THEN [found |-> FALSE, rows |-> {}]
    ELSE [found |-> TRUE, rows |-> {answer.body.v[i] : i \in 1..Len(answer.body.v)}]

\* an endpoint comparison without the placebo arms was answered, by the API
\* or by the processor
ComparedWithoutPlacebo ==
    /\ request # None
    /\ request.route \in {"/endpoints/{endpoint_name}", "compare_trials_by_endpoint"}
    /\ ~request.include_placebo
    /\ request.db # "unreachable"
    /\ ~request.raised_at_yield

\* C28: over the same persisted records, comparing an endpoint with the
\* placebo flag off gives the same set of rows, and the same kind of empty
\* answer, on the relational path of the API, on its JSON path and from
\* TrialProcessor.compare_trials_by_endpoint.
ComparePathsAgree ==
    (ComparedWithoutPlacebo /\ SamePersistedRecords) =>
        /\ RowSetOf(response)
               = RowSetOf(EndpointsOfDatabase(database, json_trial_details, request.endpoint_name, FALSE))
        /\ RowSetOf(response)
               = RowSetOf(EndpointsOfJson(json_trial_details, request.endpoint_name, FALSE))
        /\ \A listing \in Listings(files) :
               RowSetOf(response)
                   = RowSetOf(CompareTrialsByEndpoint(files, listing, request.endpoint_name, FALSE))

\* C29: normalize_endpoint_name is idempotent: normalizing the result of a
\* normalization returns it unchanged, whether the name matched an alias or
\* was only cleaned of whitespace.
NormalizeIdempotent ==
    name_out # None => NormalizeEndpointName(name_out.v) = name_out.v

\* get_json_data over the directory, in some listing, returns the record of file f
ReturnedByGetJsonData(dir, f) ==
    \E listing \in Listings(dir) :
        \E data \in {GetJsonData(dir, listing)} :
            \E i \in 1..Len(data.trial_details) : data.trial_details[i].value = JsonLoad(dir[f])

\* C30: no processed trial is lost between persisting and loading: the record
\* a run has written is in the file of its identifier, and every file written
\* and not overwritten since is returned by a later load_all_trials and by
\* get_json_data.
NoProcessedTrialLost ==
    /\ (runs > 0 /\ processed # Raised) =>
           /\ FileOf(args.trial_data) \in DOMAIN files
           /\ files[FileOf(args.trial_data)] = JsonDump(processed)
    /\ reloaded # None =>
           \A f \in DOMAIN files :
               /\ f \in DOMAIN reloaded
               /\ reloaded[f] = JsonLoad(files[f])
               /\ ReturnedByGetJsonData(files, f)
====
